---- MODULE Spec2Model ----
(***************************************************************************)
(* A model of SU2_CFD/src/solvers/CNSSolver.cpp: the edge viscous flux     *)
(* assembly, the primitive update, the buffet monitoring reduction, the    *)
(* no-slip wall boundary passes and the wall-function solve.               *)
(*                                                                         *)
(* su2double values are exact rationals <<numerator, denominator>> in      *)
(* lowest terms with a positive denominator, so that equality of values is *)
(* equality of tuples and "up to summation order" holds exactly.           *)
(***************************************************************************)
EXTENDS Integers, Sequences, FiniteSets, TLC

VARIABLES
  pc,            \* position of the driver / of the running operation
  cfg,           \* CConfig values read by the operation under study
  geo,           \* CGeometry values read by the operation under study
  nodes,         \* CNSVariable per-point storage
  LinSysRes,     \* residual block vector, one block of nVar per point
  EdgeFluxes,    \* per-edge flux buffer (ReducerStrategy)
  Jacobian,      \* sparse block matrix, [row point, column point] -> block
  loc,           \* locals of the running operation (loop index, scratch)
  out            \* what operations return or print, MPI-reduced values

vars == <<pc, cfg, geo, nodes, LinSysRes, EdgeFluxes, Jacobian, loc, out>>

-----------------------------------------------------------------------------
(* Bounds of the model *)

\* points of the edge-assembly mesh are 0..MaxPoint-1
MaxPoint == 3

\* spatial dimension of the modelled mesh and number of equations
nDim == 2
nVar == nDim + 2

Dims == 0 .. (nDim - 1)
Vars == 0 .. (nVar - 1)

-----------------------------------------------------------------------------
(* su2double arithmetic, exact *)

Abs(x) == IF x < 0 THEN -x ELSE x

RECURSIVE GCD(_, _)
GCD(a, b) == IF b = 0 THEN a ELSE GCD(b, a % b)

\* n/d in lowest terms with a positive denominator, g the gcd of |n| and |d|
Lowest(n, d, g) ==
  IF d < 0 THEN <<(-n) \div g, (-d) \div g>> ELSE <<n \div g, d \div g>>

Rat(n, d) == Lowest(n, d, GCD(Abs(n), Abs(d)))

R(n) == <<n, 1>>
Zero == R(0)
One == R(1)

\* a + b over the least common denominator, g the gcd of the denominators
AddOver(a, b, g) ==
  Rat(a[1] * (b[2] \div g) + b[1] * (a[2] \div g), (a[2] \div g) * b[2])
RAdd(a, b) ==
  IF a[2] = b[2] THEN Rat(a[1] + b[1], a[2]) ELSE AddOver(a, b, GCD(a[2], b[2]))
RNeg(a)    == <<-a[1], a[2]>>
RSub(a, b) == RAdd(a, RNeg(b))
\* a * b with the common factors g1 of a[1], b[2] and g2 of b[1], a[2] removed
MulOver(a, b, g1, g2) ==
  Rat((a[1] \div g1) * (b[1] \div g2), (a[2] \div g2) * (b[2] \div g1))
RMul(a, b) ==
  IF a[1] = 0 \/ b[1] = 0 THEN <<0, 1>>
  ELSE MulOver(a, b, GCD(Abs(a[1]), b[2]), GCD(Abs(b[1]), a[2]))
RDiv(a, b) == RMul(a, IF b[1] < 0 THEN <<-b[2], -b[1]>> ELSE <<b[2], b[1]>>)
RLt(a, b)  == a[1] * b[2] < b[1] * a[2]
RAbs(a)    == <<Abs(a[1]), a[2]>>

\* sqrt of a value that is a perfect square (the inputs are chosen so)
RECURSIVE ISqrtIn(_, _, _)
ISqrtIn(n, lo, hi) ==
  IF lo >= hi THEN lo
  ELSE LET mid == (lo + hi + 1) \div 2
       IN  IF mid * mid <= n THEN ISqrtIn(n, mid, hi) ELSE ISqrtIn(n, lo, mid - 1)
ISqrt(n) == CHOOSE r \in {ISqrtIn(n, 0, IF n < 46340 THEN n ELSE 46340)} : r * r = n
RSqrt(a) == <<ISqrt(a[1]), ISqrt(a[2])>>

\* GeometryToolbox helpers over vectors indexed by Dims
DotProduct(a, b) == RAdd(RMul(a[0], b[0]), RMul(a[1], b[1]))
SquaredNorm(a)   == DotProduct(a, a)
Norm(a)          == RSqrt(SquaredNorm(a))
VecSub(a, b)     == [d \in Dims |-> RSub(a[d], b[d])]
Distance(a, b)   == Norm(VecSub(a, b))

\* blocks: vectors of nVar values and nVar x nVar matrices
ZeroVec == [v \in Vars |-> Zero]
ZeroMat == [r \in Vars |-> [c \in Vars |-> Zero]]
VAdd(a, b) == [v \in Vars |-> RAdd(a[v], b[v])]
VSub(a, b) == [v \in Vars |-> RSub(a[v], b[v])]
VNeg(a)    == [v \in Vars |-> RNeg(a[v])]
MAdd(a, b) == [r \in Vars |-> [c \in Vars |-> RAdd(a[r][c], b[r][c])]]
MSub(a, b) == [r \in Vars |-> [c \in Vars |-> RSub(a[r][c], b[r][c])]]

-----------------------------------------------------------------------------
(* Edge viscous flux assembly: CNSSolver::Viscous_Residual *)

Points == 0 .. (MaxPoint - 1)

\* the edges of the mesh, a closed ring of the points: geometry->edges,
\* GetNode(iEdge,0) < GetNode(iEdge,1)
Edges ==
  {e \in Points \X Points :
     e[1] < e[2] /\ (e[2] = e[1] + 1 \/ (e[1] = 0 /\ e[2] = MaxPoint - 1))}

\* geometry->nodes->GetCoord(iPoint): distinct grid positions
CoordOf(p) == [d \in Dims |-> IF d = 0 THEN R(p % 2) ELSE R(p \div 2)]

\* geometry->edges->GetNormal(iEdge): area-scaled, pointing from i towards j
EdgeNormal(e) ==
  LET E == VecSub(CoordOf(e[2]), CoordOf(e[1]))
  IN  [d \in Dims |-> IF d = 0 THEN RSub(RMul(R(2), E[0]), E[1])
                               ELSE RAdd(RMul(R(2), E[1]), E[0])]

\* the states a point of the edge-assembly mesh can hold
ViscPointStates ==
  { [V |-> R(1), S |-> R(1), G |-> R(0),  k |-> R(0), tau |-> R(0)],
    [V |-> R(2), S |-> R(1), G |-> R(1),  k |-> R(1), tau |-> R(1)],
    [V |-> R(1), S |-> R(2), G |-> R(-1), k |-> R(0), tau |-> R(3)] }

Half == Rat(1, 2)

\* CNumerics::SetTauWall as called by Viscous_Residual: the two slots handed over
TauWallArgs(iPoint, jPoint) ==
  <<nodes.TauWall[iPoint], nodes.TauWall[iPoint]>>

\* the setters Viscous_Residual calls on the numerics object for an edge
\* (iPoint, jPoint) with normal Normal
NumericsInputs(iPoint, jPoint, Normal) ==
  [ Coord_i |-> geo.Coord[iPoint],          Coord_j |-> geo.Coord[jPoint],
    Normal  |-> Normal,
    V_i     |-> nodes.Primitive[iPoint],     V_j |-> nodes.Primitive[jPoint],
    S_i     |-> nodes.Secondary[iPoint],     S_j |-> nodes.Secondary[jPoint],
    PrimVar_Grad_i |-> nodes.Gradient_Primitive[iPoint],
    PrimVar_Grad_j |-> nodes.Gradient_Primitive[jPoint],
    turb_ke_i |-> IF cfg.tkeNeeded THEN nodes.tke[iPoint] ELSE Zero,
    turb_ke_j |-> IF cfg.tkeNeeded THEN nodes.tke[jPoint] ELSE Zero,
    TauWall_i |-> TauWallArgs(iPoint, jPoint)[1],
    TauWall_j |-> TauWallArgs(iPoint, jPoint)[2] ]

\* the flux kernel's wall shear stress at the face: the mean of the two
\* endpoint slots that are set (positive), -1 when none is
MeanTauWall(ti, tj) ==
  IF RLt(Zero, ti) /\ RLt(Zero, tj) THEN RMul(Half, RAdd(ti, tj))
  ELSE IF RLt(Zero, ti) THEN ti
  ELSE IF RLt(Zero, tj) THEN tj
  ELSE R(-1)

\* numerics->ComputeResidual(config): the flux at the face from the averaged
\* endpoint states and gradients, and its two Jacobian blocks
ComputeResidual(num) ==
  LET MeanV   == RMul(Half, RAdd(num.V_i, num.V_j))
      MeanS   == RMul(Half, RAdd(num.S_i, num.S_j))
      MeanG   == RMul(Half, RAdd(num.PrimVar_Grad_i, num.PrimVar_Grad_j))
      MeanK   == RMul(Half, RAdd(num.turb_ke_i, num.turb_ke_j))
      Edge    == VecSub(num.Coord_j, num.Coord_i)
      EN      == DotProduct(Edge, num.Normal)
      Corr    == RDiv(RMul(RSub(num.V_j, num.V_i), EN), SquaredNorm(Edge))
      TauW    == MeanTauWall(num.TauWall_i, num.TauWall_j)
      Stress  == IF RLt(Zero, TauW) THEN TauW
                 ELSE RSub(RMul(MeanV, MeanG), RMul(Rat(2, 3), MeanK))
      NSum    == RAdd(num.Normal[0], num.Normal[1])
      Heat    == RAdd(RMul(Stress, MeanV), RMul(MeanS, MeanG))
      fac     == RDiv(RMul(MeanV, SquaredNorm(num.Normal)), EN)
      D       == [r \in Vars |-> [c \in Vars |->
                    IF r = c /\ r > 0 THEN fac ELSE Zero]]
  IN  [ flux |-> [v \in Vars |->
                    IF v = 0 THEN Zero
                    ELSE IF v <= nDim THEN RMul(Stress, num.Normal[v - 1])
                    ELSE RAdd(RMul(Heat, NSum), Corr)],
        jacobian_i |-> [r \in Vars |-> [c \in Vars |-> RNeg(D[r][c])]],
        jacobian_j |-> D ]

\* CSysVector::SubtractBlock / AddBlock on one row of a block vector
SubtractBlock(vec, row, block) == [vec EXCEPT ![row] = VSub(@, block)]
AddBlock(vec, row, block)      == [vec EXCEPT ![row] = VAdd(@, block)]

\* CSysMatrix::UpdateBlocksSub for the edge (iPoint, jPoint)
UpdateBlocksSub(J, iPoint, jPoint, block_i, block_j) ==
  [J EXCEPT ![<<iPoint, iPoint>>] = MSub(@, block_i),
            ![<<iPoint, jPoint>>] = MSub(@, block_j),
            ![<<jPoint, iPoint>>] = MAdd(@, block_i),
            ![<<jPoint, jPoint>>] = MAdd(@, block_j)]

\* a reducer branch that adds the flux to the edge's slot
ReducerScatterAdds(ef, iEdge, residual) == AddBlock(ef, iEdge, residual.flux)

\* Viscous_Residual, ReducerStrategy branch: the flux goes to the edge's slot
ReducerScatter(ef, iEdge, residual) == SubtractBlock(ef, iEdge, residual.flux)

\* a direct branch that subtracts the flux at both endpoints
DirectScatterSubtractsBoth(res, iPoint, jPoint, residual) ==
  SubtractBlock(SubtractBlock(res, iPoint, residual.flux), jPoint, residual.flux)

\* Viscous_Residual, direct branch: the flux goes to the two endpoint rows
DirectScatter(res, iPoint, jPoint, residual) ==
  AddBlock(SubtractBlock(res, iPoint, residual.flux), jPoint, residual.flux)

\* Viscous_Residual, the Jacobian update of either branch
JacobianScatter(J, iPoint, jPoint, residual) ==
  IF cfg.implicit
  THEN UpdateBlocksSub(J, iPoint, jPoint, residual.jacobian_i, residual.jacobian_j)
  ELSE J

\* the flux Viscous_Residual computes for edge iEdge
EdgeResidual(iEdge) ==
  ComputeResidual(NumericsInputs(iEdge[1], iEdge[2], geo.Normal[iEdge]))

Viscous_Residual(iEdge) ==
  /\ pc = "visc"
  /\ iEdge \notin loc.done
  /\ LET iPoint   == iEdge[1]
         jPoint   == iEdge[2]
         residual == EdgeResidual(iEdge)
     IN  /\ IF cfg.ReducerStrategy
            THEN /\ EdgeFluxes' = ReducerScatter(EdgeFluxes, iEdge, residual)
                 /\ LinSysRes' = LinSysRes
            ELSE /\ LinSysRes' = DirectScatter(LinSysRes, iPoint, jPoint, residual)
                 /\ EdgeFluxes' = EdgeFluxes
         /\ Jacobian' = JacobianScatter(Jacobian, iPoint, jPoint, residual)
  /\ loc' = [done |-> loc.done \cup {iEdge}, last |-> <<iEdge>>]
  /\ UNCHANGED <<pc, cfg, geo, nodes, out>>

\* CEulerSolver::SumEdgeFluxes: every point's row becomes the signed sum of the
\* slots of its edges (plus where the point is the edge's first node)
SumEdgeFluxesRow(ef, iPoint) ==
  LET RECURSIVE Sum(_, _)
      Sum(S, acc) ==
        IF S = {} THEN acc
        ELSE LET e == CHOOSE x \in S : TRUE
             IN  Sum(S \ {e},
                     IF iPoint = e[1] THEN VAdd(acc, ef[e])
                     ELSE IF iPoint = e[2] THEN VSub(acc, ef[e])
                     ELSE acc)
  IN  Sum(Edges, ZeroVec)

SumEdgeFluxes ==
  /\ pc = "visc"
  /\ cfg.ReducerStrategy
  /\ LinSysRes' = [p \in Points |-> SumEdgeFluxesRow(EdgeFluxes, p)]
  /\ pc' = "reduced"
  /\ UNCHANGED <<cfg, geo, nodes, EdgeFluxes, Jacobian, loc, out>>

InitVisc ==
  /\ pc = "visc"
  /\ cfg \in [ReducerStrategy : BOOLEAN, implicit : BOOLEAN, tkeNeeded : BOOLEAN]
  /\ geo = [Coord |-> [p \in Points |-> CoordOf(p)],
            Normal |-> [e \in Edges |-> EdgeNormal(e)]]
  /\ \E st \in [Points -> ViscPointStates] :
       nodes = [Primitive |-> [p \in Points |-> st[p].V],
                Secondary |-> [p \in Points |-> st[p].S],
                Gradient_Primitive |-> [p \in Points |-> st[p].G],
                tke |-> [p \in Points |-> st[p].k],
                TauWall |-> [p \in Points |-> st[p].tau]]
  /\ LinSysRes = [p \in Points |-> ZeroVec]
  /\ EdgeFluxes = [e \in Edges |-> ZeroVec]
  /\ Jacobian = [b \in Points \X Points |-> ZeroMat]
  /\ loc = [done |-> {}, last |-> <<>>]
  /\ out = <<>>

NextVisc ==
  \/ \E iEdge \in Edges : Viscous_Residual(iEdge)
  \/ SumEdgeFluxes

SpecVisc == InitVisc /\ [][NextVisc]_vars

-----------------------------------------------------------------------------
(* Claims on the edge viscous flux assembly *)

\* the sum of all rows of a block vector over the points
SumOfRows(vec) ==
  LET RECURSIVE Sum(_, _)
      Sum(S, acc) ==
        IF S = {} THEN acc
        ELSE LET p == CHOOSE x \in S : TRUE IN Sum(S \ {p}, VAdd(acc, vec[p]))
  IN  Sum(Points, ZeroVec)

\* C1: in direct-scatter mode one call of Viscous_Residual for edge (i,j) with
\* flux F takes F from row i, adds F to row j, leaves every other row (and so
\* the sum of all rows) unchanged; the Jacobian gets UpdateBlocksSub(i,j) with
\* the two flux Jacobian blocks when implicit and is untouched when explicit.
C1_DirectScatterFrame ==
  [][ (pc = "visc" /\ ~cfg.ReducerStrategy /\ loc'.done # loc.done) =>
        LET e == loc'.last[1]
            i == e[1]
            j == e[2]
            r == EdgeResidual(e)
        IN  /\ LinSysRes'[i] = VSub(LinSysRes[i], r.flux)
            /\ LinSysRes'[j] = VAdd(LinSysRes[j], r.flux)
            /\ \A p \in Points \ {i, j} : LinSysRes'[p] = LinSysRes[p]
            /\ SumOfRows(LinSysRes') = SumOfRows(LinSysRes)
            /\ EdgeFluxes' = EdgeFluxes
            /\ cfg.implicit =>
                 Jacobian' = UpdateBlocksSub(Jacobian, i, j, r.jacobian_i, r.jacobian_j)
            /\ ~cfg.implicit => Jacobian' = Jacobian ]_vars

\* a direct-mode pass has scattered a non-zero flux of every edge, implicitly
C1_Witness ==
  /\ pc = "visc" /\ ~cfg.ReducerStrategy /\ cfg.implicit
  /\ loc.done = Edges
  /\ \E p \in Points : LinSysRes[p] # ZeroVec
  /\ \E b \in Points \X Points : Jacobian[b] # ZeroMat

\* the residual a direct-mode pass over the edge set S leaves, from zero rows
DirectTotal(S) ==
  LET RECURSIVE Run(_, _)
      Run(T, res) ==
        IF T = {} THEN res
        ELSE LET e == CHOOSE x \in T : TRUE
                 F == EdgeResidual(e).flux
             IN  Run(T \ {e},
                     [res EXCEPT ![e[1]] = VSub(@, F), ![e[2]] = VAdd(@, F)])
  IN  Run(S, [p \in Points |-> ZeroVec])

\* C2: buffered mode writes no vertex row while edges are processed, and after
\* the reduction every vertex row equals what direct mode leaves for the same
\* edges, whatever the order the edges were processed in.
C2_StrategiesAgree ==
  /\ (cfg.ReducerStrategy /\ pc = "visc") => LinSysRes = [p \in Points |-> ZeroVec]
  /\ (cfg.ReducerStrategy /\ pc = "reduced") => LinSysRes = DirectTotal(loc.done)
  /\ (~cfg.ReducerStrategy /\ pc = "visc") => LinSysRes = DirectTotal(loc.done)

\* a buffered pass over all edges was reduced to non-zero rows
C2_Witness ==
  /\ cfg.ReducerStrategy /\ pc = "reduced" /\ loc.done = Edges
  /\ \A e \in Edges : EdgeFluxes[e] # ZeroVec
  /\ \E p \in Points : LinSysRes[p] # ZeroVec

\* the flux Viscous_Residual computes for edge e taken in the other
\* orientation: endpoints swapped, normal negated
SwappedResidual(e) ==
  ComputeResidual(NumericsInputs(e[2], e[1],
                                 [d \in Dims |-> RNeg(geo.Normal[e][d])]))

\* C3: processing an edge with endpoint order swapped and normal sign flipped
\* gives exactly the negative flux, so the net residual change at the two
\* vertices is the same in both orientations.
C3_FluxAntisymmetric ==
  \A e \in loc.done :
    /\ SwappedResidual(e).flux = VNeg(EdgeResidual(e).flux)
    /\ DirectScatter(LinSysRes, e[2], e[1], SwappedResidual(e)) =
         DirectScatter(LinSysRes, e[1], e[2], EdgeResidual(e))

-----------------------------------------------------------------------------
(* Primitive update: CNSSolver::SetPrimitive_Variables *)

\* threads of a partition are 1..nThreads, nThreads <= MaxThread
MaxThread == 2
\* omp_chunk_size is 1..MaxChunk
MaxChunk == 2
\* calls of SetPrimitive_Variables in a run
MaxCall == 2

\* conserved states a point can hold, by the thermodynamic state they yield
Solutions ==
  { [Density |-> 1,  Pressure |-> 2],
    [Density |-> -1, Pressure |-> 1],
    [Density |-> 2,  Pressure |-> -3] }

\* CNSVariable::SetPrimVar: the primitives of a point and whether the state is
\* physical (positive density and pressure)
SetPrimVar(sol, eddy_visc, turb_ke) ==
  [ prim |-> [Density |-> sol.Density, Pressure |-> sol.Pressure,
              eddyMu |-> eddy_visc, tke |-> turb_ke],
    physical |-> sol.Density > 0 /\ sol.Pressure > 0 ]

\* CVariable::SetSecondaryVar: thermodynamic derivatives of the point's state
SetSecondaryVar(sol) == [dPdrho |-> sol.Pressure - sol.Density]

\* eddy viscosity and turbulent kinetic energy read for a point
EddyViscOf(iPoint) ==
  IF cfg.turb_model # "NONE" THEN nodes.muT[iPoint] ELSE 0
TurbKeOf(iPoint) ==
  IF cfg.turb_model = "SST" THEN nodes.tke[iPoint] ELSE 0

\* a counter that counts the physical points
CountPhysical(nonPhysicalPoints, physical) ==
  nonPhysicalPoints + (IF physical THEN 1 ELSE 0)

\* nonPhysicalPoints += !physical
CountNonPhysical(nonPhysicalPoints, physical) ==
  nonPhysicalPoints + (IF physical THEN 0 ELSE 1)

\* schedule(static, omp_chunk_size): the thread that runs iteration iPoint
ThreadOf(iPoint) == ((iPoint \div cfg.omp_chunk_size) % cfg.nThreads) + 1

Threads == 1 .. cfg.nThreads

\* a loop without work sharing: every thread runs every iteration
PendingPointsUnshared(t) ==
  {p \in Points : p >= loc.thr[t].iPoint}

\* the iterations of thread t not yet run
PendingPoints(t) ==
  {p \in Points : ThreadOf(p) = t /\ p >= loc.thr[t].iPoint}

\* entry of SetPrimitive_Variables in every thread: the local counter is zero
Prim_Call ==
  /\ pc = "idle"
  /\ loc.calls < MaxCall
  /\ pc' = "prim"
  /\ loc' = [calls |-> loc.calls + 1,
             thr |-> [t \in Threads |->
                        [at |-> "loop", iPoint |-> 0, nonPhysicalPoints |-> 0,
                         seen |-> {}]]]
  /\ out' = [ret |-> [t \in Threads |-> -1]]
  /\ UNCHANGED <<cfg, geo, nodes, LinSysRes, EdgeFluxes, Jacobian>>

\* one iteration of the point loop in thread t
Prim_Point(t) ==
  /\ pc = "prim"
  /\ loc.thr[t].at = "loop"
  /\ PendingPoints(t) # {}
  /\ LET iPoint == CHOOSE p \in PendingPoints(t) :
                     \A q \in PendingPoints(t) : p <= q
         r == SetPrimVar(nodes.Solution[iPoint], EddyViscOf(iPoint), TurbKeOf(iPoint))
     IN  /\ nodes' = [nodes EXCEPT
                        !.Primitive[iPoint] = r.prim,
                        !.Secondary[iPoint] = SetSecondaryVar(nodes.Solution[iPoint])]
         /\ loc' = [loc EXCEPT
                      !.thr[t].iPoint = iPoint + 1,
                      !.thr[t].seen = @ \cup {iPoint},
                      !.thr[t].nonPhysicalPoints = CountNonPhysical(@, r.physical)]
  /\ UNCHANGED <<pc, cfg, geo, LinSysRes, EdgeFluxes, Jacobian, out>>

\* return nonPhysicalPoints, in thread t
Prim_Return(t) ==
  /\ pc = "prim"
  /\ loc.thr[t].at = "loop"
  /\ PendingPoints(t) = {}
  /\ loc' = [loc EXCEPT !.thr[t].at = "returned"]
  /\ out' = [out EXCEPT !.ret[t] = loc.thr[t].nonPhysicalPoints]
  /\ UNCHANGED <<pc, cfg, geo, nodes, LinSysRes, EdgeFluxes, Jacobian>>

\* all threads are back: the driver goes on; the solution changes before the
\* next call
Prim_Advance ==
  /\ pc = "prim"
  /\ \A t \in Threads : loc.thr[t].at = "returned"
  /\ pc' = "idle"
  /\ \E iPoint \in Points, sol \in Solutions :
       nodes' = [nodes EXCEPT !.Solution[iPoint] = sol]
  /\ UNCHANGED <<cfg, geo, LinSysRes, EdgeFluxes, Jacobian, loc, out>>

InitPrim ==
  /\ pc = "idle"
  /\ cfg \in [nThreads : 1 .. MaxThread, omp_chunk_size : 1 .. MaxChunk,
              turb_model : {"NONE", "SST"}]
  /\ geo = <<>>
  /\ \E sol \in [Points -> Solutions] :
       nodes = [Solution |-> sol,
                muT |-> [p \in Points |-> p + 1],
                tke |-> [p \in Points |-> 2 * p + 1],
                Primitive |-> [p \in Points |-> <<>>],
                Secondary |-> [p \in Points |-> <<>>]]
  /\ LinSysRes = <<>>
  /\ EdgeFluxes = <<>>
  /\ Jacobian = <<>>
  /\ loc = [calls |-> 0,
            thr |-> [t \in Threads |->
                       [at |-> "returned", iPoint |-> 0, nonPhysicalPoints |-> 0,
                        seen |-> {}]]]
  /\ out = [ret |-> [t \in Threads |-> -1]]

NextPrim ==
  \/ Prim_Call
  \/ \E t \in Threads : Prim_Point(t)
  \/ \E t \in Threads : Prim_Return(t)
  \/ Prim_Advance

SpecPrim == InitPrim /\ [][NextPrim]_vars

\* the points whose update reports a non-physical state, among S
NonPhysicalIn(S) ==
  {p \in S : ~SetPrimVar(nodes.Solution[p], EddyViscOf(p), TurbKeOf(p)).physical}

\* C6: SetPrimitive_Variables returns exactly the number of vertices whose
\* update reported a non-physical state in this call: the counter is zero at
\* entry of every call, never decreases during the pass, grows by one for a
\* non-physical vertex and by zero for a physical one, and a non-physical
\* vertex does not shorten the pass (every vertex of the loop is updated).
C6_NonPhysicalCount ==
  /\ [](pc = "prim" =>
         \A t \in Threads :
           /\ loc.thr[t].nonPhysicalPoints =
                Cardinality(NonPhysicalIn(loc.thr[t].seen))
           /\ loc.thr[t].seen = {} => loc.thr[t].nonPhysicalPoints = 0
           /\ \A p \in loc.thr[t].seen :
                /\ nodes.Primitive[p] =
                     SetPrimVar(nodes.Solution[p], EddyViscOf(p), TurbKeOf(p)).prim
                /\ nodes.Secondary[p] = SetSecondaryVar(nodes.Solution[p])
           /\ loc.thr[t].at = "returned" =>
                /\ loc.thr[t].seen = {p \in Points : ThreadOf(p) = t}
                /\ out.ret[t] = Cardinality(NonPhysicalIn(loc.thr[t].seen))
                /\ cfg.nThreads = 1 =>
                     out.ret[t] = Cardinality(NonPhysicalIn(Points)))
  /\ [][ (pc = "prim" /\ pc' = "prim") =>
           \A t \in Threads :
             LET new == loc'.thr[t].seen \ loc.thr[t].seen
                 d   == loc'.thr[t].nonPhysicalPoints - loc.thr[t].nonPhysicalPoints
             IN  /\ d >= 0
                 /\ d = Cardinality(NonPhysicalIn(new))
                 /\ Cardinality(new) <= 1 ]_vars

\* a second call, run by one thread, has returned a count that is neither zero
\* nor the number of points
C6_Witness ==
  /\ pc = "prim" /\ loc.calls = 2 /\ cfg.nThreads = 1
  /\ loc.thr[1].at = "returned"
  /\ out.ret[1] > 0 /\ out.ret[1] < Cardinality(Points)
  /\ NonPhysicalIn(Points) # {}

-----------------------------------------------------------------------------
(* Buffet monitoring: CNSSolver::Buffet_Monitoring *)

\* MPI ranks (mesh partitions) are 1..MaxRank
MaxRank == 2
\* vertices of the monitored wall marker, over all partitions: 0..MaxVertex-1
MaxVertex == 4

Ranks == 1 .. MaxRank
Markers == 0 .. 1
WallVertices == 0 .. (MaxVertex - 1)

\* the elements of a set of numbers as an increasing sequence
RECURSIVE SortedSeq(_)
SortedSeq(S) ==
  IF S = {} THEN <<>>
  ELSE LET x == CHOOSE y \in S : \A z \in S : y <= z
       IN  <<x>> \o SortedSeq(S \ {x})

\* CSkinFriction of a marker vertex, by its global number
SkinFrictionOf(gid) ==
  LET k == gid % 5
  IN  IF k = 0 THEN [d \in Dims |-> IF d = 0 THEN R(1) ELSE R(0)]
      ELSE IF k = 1 THEN [d \in Dims |-> IF d = 0 THEN R(-1) ELSE R(0)]
      ELSE IF k = 2 THEN [d \in Dims |-> IF d = 0 THEN R(3) ELSE R(4)]
      ELSE IF k = 3 THEN [d \in Dims |-> IF d = 0 THEN R(0) ELSE R(2)]
      ELSE [d \in Dims |-> IF d = 0 THEN R(-4) ELSE R(3)]

\* the vertex normal of a marker vertex, by its global number
VertexNormalOf(gid) == [d \in Dims |-> IF d = 0 THEN R(0) ELSE R(gid + 1)]

\* exp(x) for |x| < 2, as its (1,1) Pade approximant
Exp(x) == RDiv(RAdd(R(2), x), RSub(R(2), x))

\* the buffet sensor of one vertex: the smooth Heaviside function of the
\* normalised dot product of skin friction and freestream velocity
BuffetSensor(CSkinFriction) ==
  LET VelMag_FS       == Norm(cfg.Vel_FS)
      SkinFrictionMag == Norm(CSkinFriction)
      SkinFrictionDot == RDiv(DotProduct(CSkinFriction, cfg.Vel_FS),
                              RMul(SkinFrictionMag, VelMag_FS))
  IN  RDiv(One, RAdd(One, Exp(RMul(RMul(R(2), cfg.Buffet_k),
                                   RAdd(SkinFrictionDot, cfg.Buffet_lambda)))))

\* whether the vertex loop of Buffet_Monitoring visits a marker of this kind
IsBuffetWall(Boundary) ==
  Boundary = "HEAT_FLUX" \/ Boundary = "ISOTHERMAL" \/ Boundary = "HEAT_FLUX"
    \/ Boundary = "CHT_WALL_INTERFACE"

\* what the vertex loop adds to Buffet_Metric[iMarker] for one marker vertex
BuffetVertexTerm(vtx) ==
  RDiv(RMul(BuffetSensor(SkinFrictionOf(vtx.gid)), Norm(VertexNormalOf(vtx.gid))),
       cfg.RefArea)

\* Buffet_Metric[iMarker] after the vertex loop over the vertex list vlist
RECURSIVE MarkerBuffetMetric(_, _, _)
MarkerBuffetMetric(vlist, iVertex, acc) ==
  IF iVertex > Len(vlist) THEN acc
  ELSE MarkerBuffetMetric(vlist, iVertex + 1,
                          RAdd(acc, BuffetVertexTerm(vlist[iVertex])))

\* the monitoring markers, in the order of the config's monitoring list
MonitoringList == SortedSeq({m \in Markers : cfg.Monitoring[m]})

\* the local part of Buffet_Monitoring on the marker vertex lists vertex
\* (marker -> list): Buffet_Metric, Total_Buffet_Metric, Surface_Buffet_Metric
BuffetLocal(vertex) ==
  LET Buffet_Metric ==
        [m \in Markers |->
           IF IsBuffetWall(cfg.KindBC[m]) /\ cfg.Monitoring[m]
           THEN MarkerBuffetMetric(vertex[m], 1, Zero)
           ELSE Zero]
      RECURSIVE Total(_, _)
      Total(iMarker, acc) ==
        IF iMarker \notin Markers THEN acc
        ELSE Total(iMarker + 1,
                   IF IsBuffetWall(cfg.KindBC[iMarker]) /\ cfg.Monitoring[iMarker]
                   THEN RAdd(acc, Buffet_Metric[iMarker]) ELSE acc)
  IN  [ Buffet_Metric |-> Buffet_Metric,
        Total_Buffet_Metric |-> Total(0, Zero),
        Surface_Buffet_Metric |->
          [i \in 1 .. Len(MonitoringList) |->
             IF IsBuffetWall(cfg.KindBC[MonitoringList[i]])
             THEN Buffet_Metric[MonitoringList[i]] ELSE Zero] ]

\* lines 313-381 on rank r
Buffet_Local(r) ==
  /\ pc = "buffet"
  /\ ~loc.done[r]
  /\ out' = [out EXCEPT ![r] = BuffetLocal(geo.vertex[r])]
  /\ loc' = [loc EXCEPT !.done[r] = TRUE]
  /\ UNCHANGED <<pc, cfg, geo, nodes, LinSysRes, EdgeFluxes, Jacobian>>

\* the sum over the ranks of a value each rank holds
RECURSIVE RankSum(_, _)
RankSum(val, r) == IF r > MaxRank THEN Zero ELSE RAdd(val[r], RankSum(val, r + 1))

\* the two SU2_MPI::Allreduce(MPI_SUM) calls, once every rank has reached them
Buffet_Allreduce ==
  /\ pc = "buffet"
  /\ \A r \in Ranks : loc.done[r]
  /\ out' = [r \in Ranks |->
               [out[r] EXCEPT
                  !.Total_Buffet_Metric =
                     RankSum([q \in Ranks |-> out[q].Total_Buffet_Metric], 1),
                  !.Surface_Buffet_Metric =
                     [i \in 1 .. Len(MonitoringList) |->
                        RankSum([q \in Ranks |-> out[q].Surface_Buffet_Metric[i]], 1)]]]
  /\ pc' = "reduced"
  /\ UNCHANGED <<cfg, geo, nodes, LinSysRes, EdgeFluxes, Jacobian, loc>>

\* the marker vertex lists of rank r when vertex v of the wall marker is owned
\* by owner[v] and, where halo[v], held as a halo copy by the next rank; the
\* other marker has one vertex, owned by rank 1
RankVertexLists(r, owner, halo) ==
  LET next(q) == (q % MaxRank) + 1
      held    == {v \in WallVertices : owner[v] = r \/ (halo[v] /\ next(owner[v]) = r)}
      gids    == SortedSeq(held)
  IN  [m \in Markers |->
         IF m = 0
         THEN [i \in 1 .. Len(gids) |-> [gid |-> gids[i], domain |-> owner[gids[i]] = r]]
         ELSE IF r = 1 THEN <<[gid |-> MaxVertex, domain |-> TRUE]>> ELSE <<>>]

\* the marker vertex lists of a single partition holding the whole mesh
WholeVertexLists ==
  [m \in Markers |->
     IF m = 0
     THEN [i \in 1 .. MaxVertex |-> [gid |-> i - 1, domain |-> TRUE]]
     ELSE <<[gid |-> MaxVertex, domain |-> TRUE]>>]

InitBuffet ==
  /\ pc = "buffet"
  /\ \E k0 \in {"HEAT_FLUX", "ISOTHERMAL"},
        k1 \in {"CHT_WALL_INTERFACE", "EULER_WALL"}, m1 \in BOOLEAN :
       cfg = [KindBC |-> [m \in Markers |-> IF m = 0 THEN k0 ELSE k1],
              Monitoring |-> [m \in Markers |-> IF m = 0 THEN TRUE ELSE m1],
              Vel_FS |-> [d \in Dims |-> IF d = 0 THEN R(1) ELSE R(0)],
              RefArea |-> R(2), Buffet_k |-> Half, Buffet_lambda |-> Zero]
  /\ \E owner \in [WallVertices -> Ranks], halo \in [WallVertices -> BOOLEAN] :
       geo = [vertex |-> [r \in Ranks |-> RankVertexLists(r, owner, halo)]]
  /\ nodes = <<>>
  /\ LinSysRes = <<>>
  /\ EdgeFluxes = <<>>
  /\ Jacobian = <<>>
  /\ loc = [done |-> [r \in Ranks |-> FALSE]]
  /\ out = [r \in Ranks |->
              [Buffet_Metric |-> [m \in Markers |-> Zero],
               Total_Buffet_Metric |-> Zero,
               Surface_Buffet_Metric |-> [i \in 1 .. Len(MonitoringList) |-> Zero]]]

NextBuffet ==
  \/ \E r \in Ranks : Buffet_Local(r)
  \/ Buffet_Allreduce

SpecBuffet == InitBuffet /\ [][NextBuffet]_vars

\* C7: with the vertices of a monitored wall marker split over the partitions
\* (halo copies included in the lists), the sum-reduced Total_Buffet_Metric and
\* every sum-reduced Surface_Buffet_Metric entry equal the values a single
\* partition holding the whole marker computes.
C7_ReductionMatchesSinglePartition ==
  pc = "reduced" =>
    \A r \in Ranks :
      /\ out[r].Total_Buffet_Metric = BuffetLocal(WholeVertexLists).Total_Buffet_Metric
      /\ out[r].Surface_Buffet_Metric = BuffetLocal(WholeVertexLists).Surface_Buffet_Metric

-----------------------------------------------------------------------------
(* No-slip wall boundary passes: BC_HeatFlux_Wall, BC_Isothermal_Wall_Generic *)

\* vertices of the wall marker are 1..MaxBCVertex
MaxBCVertex == 2
\* wall passes in a run
MaxPass == 2

\* vertex iVertex of the marker sits on point iVertex-1; its nearest interior
\* neighbour is point MaxBCVertex+iVertex-1
BCVertices == 1 .. MaxBCVertex
BCPoints == 0 .. (2 * MaxBCVertex - 1)
Vec2(x, y) == [d \in Dims |-> IF d = 0 THEN x ELSE y]
ZeroDimVec == Vec2(Zero, Zero)

\* geometry->vertex[val_marker][iVertex]->GetNormal()
BCNormalOf(iVertex) ==
  LET k == iVertex % 3
  IN  IF k = 0 THEN Vec2(R(-4), R(3))
      ELSE IF k = 1 THEN Vec2(R(0), R(2))
      ELSE Vec2(R(3), R(4))

\* coordinates: wall points on y = 0, the neighbour of vertex v at height v
BCCoordOf(p) ==
  IF p < MaxBCVertex THEN Vec2(R(p), Zero)
  ELSE Vec2(R(p - MaxBCVertex), R(p - MaxBCVertex + 1))

\* ratio of specific heats of the solver's gas
Gamma == Rat(7, 5)
Gamma_Minus_One == RSub(Gamma, One)

RecognisedAveraged ==
  {"AVERAGED_TEMPERATURE_NEUMANN_HEATFLUX", "AVERAGED_TEMPERATURE_ROBIN_HEATFLUX"}
RecognisedDirect ==
  {"DIRECT_TEMPERATURE_NEUMANN_HEATFLUX", "DIRECT_TEMPERATURE_ROBIN_HEATFLUX"}
\* the values Kind_CHT_Coupling can hold: the four modes and one that is none
CHTCouplingKinds == RecognisedAveraged \cup RecognisedDirect \cup {"OTHER_COUPLING"}

\* CNumerics::ComputeStressTensor: tau = mu (grad u + grad u^T) - 2/3 mu div u I
ComputeStressTensor(gradVel, viscosity) ==
  LET div == RAdd(gradVel[0][0], gradVel[1][1])
  IN  [i \in Dims |-> [j \in Dims |->
         RSub(RMul(viscosity, RAdd(gradVel[i][j], gradVel[j][i])),
              IF i = j THEN RMul(RMul(Rat(2, 3), viscosity), div) ELSE Zero)]]

\* the row the moving wall adds to the energy row of Jacobian_i (nDim == 2)
DynamicGridJacobianRow(GridVel, ProjGridVel, factor, pix, piy) ==
  [c \in Vars |->
     IF c = 0
     THEN RAdd(RMul(RMul(RMul(Half, Gamma_Minus_One), SquaredNorm(GridVel)), ProjGridVel),
               RMul(factor, RAdd(RNeg(RMul(pix, GridVel[0])), RMul(piy, GridVel[1]))))
     ELSE IF c <= nDim
     THEN RAdd(RNeg(RMul(RMul(Gamma_Minus_One, GridVel[c - 1]), ProjGridVel)),
               RMul(factor, IF c = 1 THEN pix ELSE piy))
     ELSE RMul(Gamma_Minus_One, ProjGridVel)]

\* the residual and Jacobian updates of AddDynamicGridResidualContribution from
\* the projected grid velocity and the total viscosity it computes first
DynamicGridContribution(iPoint, Point_Normal, UnitNormal, Area, GridVel, Jacobian_i, Res_Conv, Res_Visc, ProjGridVel, total_viscosity) ==
  LET tau == ComputeStressTensor(nodes.GradVel[iPoint], total_viscosity)
      tau_vel == [d \in Dims |-> DotProduct(tau[d], GridVel)]
      dist_ij == Distance(geo.Coord[iPoint], geo.Coord[Point_Normal])
      factor == RDiv(RMul(total_viscosity, Area), RMul(nodes.Density[iPoint], dist_ij))
      thetax == RAdd(One, RDiv(RMul(UnitNormal[0], UnitNormal[0]), R(3)))
      thetay == RAdd(One, RDiv(RMul(UnitNormal[1], UnitNormal[1]), R(3)))
      etaz == RDiv(RMul(UnitNormal[0], UnitNormal[1]), R(3))
      pix == RAdd(RMul(GridVel[0], thetax), RMul(GridVel[1], etaz))
      piy == RAdd(RMul(GridVel[0], etaz), RMul(GridVel[1], thetay))
      row == DynamicGridJacobianRow(GridVel, ProjGridVel, factor, pix, piy)
  IN  [ Res_Conv |-> RAdd(Res_Conv, RMul(nodes.Pressure[iPoint], ProjGridVel)),
        Res_Visc |-> RAdd(Res_Visc, RMul(DotProduct(tau_vel, UnitNormal), Area)),
        Jacobian_i |-> IF Jacobian_i = <<>> THEN <<>>
                       ELSE [Jacobian_i EXCEPT
                               ![nDim + 1] = [c \in Vars |-> RAdd(@[c], row[c])]] ]

\* CNSSolver::AddDynamicGridResidualContribution (the nDim == 2 branch);
\* Jacobian_i is <<>> for a null pointer
AddDynamicGridResidualContribution(iPoint, Point_Normal, UnitNormal, Area, GridVel, Jacobian_i, Res_Conv, Res_Visc) ==
  DynamicGridContribution(iPoint, Point_Normal, UnitNormal, Area, GridVel, Jacobian_i,
                          Res_Conv, Res_Visc,
                          RMul(Area, DotProduct(GridVel, UnitNormal)),
                          RAdd(nodes.LaminarViscosity[iPoint], nodes.EddyViscosity[iPoint]))

\* CSysMatrix::AddBlock2Diag
AddBlock2Diag(J, iPoint, block) == [J EXCEPT ![<<iPoint, iPoint>>] = MAdd(@, block)]

\* CSysMatrix::DeleteValsRowi for scalar row iPoint*nVar+iVar: every entry of
\* the row becomes zero, the diagonal entry one
DeleteValsRowi(J, iPoint, iVar) ==
  [b \in DOMAIN J |->
     IF b[1] # iPoint THEN J[b]
     ELSE [J[b] EXCEPT ![iVar] =
             [c \in Vars |-> IF b[2] = iPoint /\ c = iVar THEN One ELSE Zero]]]

\* a momentum-row loop that stops one row short
MomentumRowsShort == 1 .. (nDim - 1)

\* the rows of the momentum equations: iVar = 1 .. nDim
MomentumRows == 1 .. nDim

\* the loop "for iVar = 1..nDim: Jacobian.DeleteValsRowi(iPoint*nVar+iVar)"
RECURSIVE DeleteMomentumRows(_, _, _)
DeleteMomentumRows(J, iPoint, iVar) ==
  IF iVar \notin MomentumRows THEN J
  ELSE DeleteMomentumRows(DeleteValsRowi(J, iPoint, iVar), iPoint, iVar + 1)

\* the strong velocity condition of both passes: Velocity_Old, the momentum
\* rows of the residual and the velocity truncation error of iPoint
StrongVelocity(ps, iPoint) ==
  [ps EXCEPT
     !.velOld[iPoint] = IF cfg.dynamic_grid THEN geo.GridVel[iPoint] ELSE ZeroDimVec,
     !.res[iPoint] = [v \in Vars |-> IF v \in 1 .. nDim THEN Zero ELSE @[v]],
     !.trunc[iPoint] = ZeroDimVec]

\* UnitNormal[iDim] = -Normal[iDim]/Area
UnitNormalOf(Normal, Area) == [d \in Dims |-> RDiv(RNeg(Normal[d]), Area)]

\* a heat-flux residual that leaves out the dual-cell area
HeatFluxResViscNoArea(Wall_HeatFlux, Area) == Wall_HeatFlux

\* Res_Visc = Wall_HeatFlux * Area
HeatFluxResVisc(Wall_HeatFlux, Area) == RMul(Wall_HeatFlux, Area)

\* a scratch block whose energy row is left as the previous vertex set it
KeepEnergyRow(Jacobian_i) == Jacobian_i

\* BC_HeatFlux_Wall, lines 624-627: Jacobian_i[nDim+1][iVar] = 0.0
ResetEnergyRow(Jacobian_i) == [Jacobian_i EXCEPT ![nDim + 1] = [c \in Vars |-> Zero]]

\* an energy residual that is overwritten with the wall contribution
OverwriteEnergy(old, Res_Conv, Res_Visc) == RSub(Res_Conv, Res_Visc)

\* lines 640 and 839: LinSysRes(iPoint, nDim+1) += Res_Conv - Res_Visc
AccumulateEnergy(old, Res_Conv, Res_Visc) == RAdd(old, RSub(Res_Conv, Res_Visc))

\* BC_HeatFlux_Wall, lines 603-635: Res_Conv, Res_Visc and Jacobian_i of a
\* vertex, with the moving-wall contribution on a dynamic grid
HeatFluxContribution(Jacobian_i, vtx, Wall_HeatFlux, Area) ==
  IF cfg.dynamic_grid
  THEN AddDynamicGridResidualContribution(
         vtx.iPoint, vtx.Normal_Neighbor, UnitNormalOf(vtx.Normal, Area), Area,
         geo.GridVel[vtx.iPoint],
         IF cfg.implicit THEN ResetEnergyRow(Jacobian_i) ELSE Jacobian_i,
         Zero, HeatFluxResVisc(Wall_HeatFlux, Area))
  ELSE [Res_Conv |-> Zero, Res_Visc |-> HeatFluxResVisc(Wall_HeatFlux, Area),
        Jacobian_i |-> Jacobian_i]

\* BC_HeatFlux_Wall, lines 640-655: the energy residual, the diagonal block
\* and the deletion of the momentum rows
HeatFluxUpdate(ps, iVertex, iPoint, dyn) ==
  [ps EXCEPT
     !.res[iPoint][nDim + 1] = AccumulateEnergy(@, dyn.Res_Conv, dyn.Res_Visc),
     !.jac = IF cfg.implicit
             THEN DeleteMomentumRows(
                    IF cfg.dynamic_grid THEN AddBlock2Diag(@, iPoint, dyn.Jacobian_i) ELSE @,
                    iPoint, 1)
             ELSE @,
     !.Jacobian_i = dyn.Jacobian_i,
     !.added[iVertex] = IF cfg.implicit /\ cfg.dynamic_grid THEN dyn.Jacobian_i ELSE <<>>]

\* the iteration of the vertex loop of BC_HeatFlux_Wall at a domain-owned
\* vertex, Wall_HeatFlux being the marker's or the vertex's custom value
HeatFluxOwnedVertex(ps, iVertex, vtx, Wall_HeatFlux) ==
  HeatFluxUpdate(
    StrongVelocity([ps EXCEPT !.Wall_HeatFlux = Wall_HeatFlux], vtx.iPoint),
    iVertex, vtx.iPoint,
    HeatFluxContribution(ps.Jacobian_i, vtx, Wall_HeatFlux, Norm(vtx.Normal)))

\* an iteration that does not look at the owner of the vertex's point
HeatFluxVertexAnyOwner(ps, iVertex) ==
  HeatFluxOwnedVertex(ps, iVertex, geo.vertex[iVertex],
                      IF cfg.PyCustom THEN geo.CustomBoundaryHeatFlux[iVertex]
                      ELSE ps.Wall_HeatFlux)

\* one iteration of the vertex loop of BC_HeatFlux_Wall on the locals and
\* solver state ps
HeatFluxVertex(ps, iVertex) ==
  IF ~geo.Domain[geo.vertex[iVertex].iPoint] THEN ps
  ELSE HeatFluxOwnedVertex(ps, iVertex, geo.vertex[iVertex],
                           IF cfg.PyCustom THEN geo.CustomBoundaryHeatFlux[iVertex]
                           ELSE ps.Wall_HeatFlux)

\* the averaged wall temperature of GetCHTWallTemperature
AveragedTemperature(There, Tconjugate, HF_FactorHere, HF_FactorConjugate) ==
  RDiv(RAdd(RMul(There, HF_FactorHere), RMul(Tconjugate, HF_FactorConjugate)),
       RAdd(HF_FactorHere, HF_FactorConjugate))

\* a coupling dispatch that does not know the direct Robin mode
GetCHTWallTemperatureNoRobin(iVertex, thermal_conductivity, dist_ij, There, Temperature_Ref) ==
  IF cfg.Kind_CHT_Coupling \in RecognisedAveraged
  THEN [Twall |-> AveragedTemperature(
                    There, RDiv(geo.ConjugateHeatVariable[iVertex][0], Temperature_Ref),
                    RDiv(RMul(thermal_conductivity, cfg.Viscosity_Ref), dist_ij),
                    geo.ConjugateHeatVariable[iVertex][2]),
        err |-> FALSE]
  ELSE IF cfg.Kind_CHT_Coupling = "DIRECT_TEMPERATURE_NEUMANN_HEATFLUX"
  THEN [Twall |-> RDiv(geo.ConjugateHeatVariable[iVertex][0], Temperature_Ref),
        err |-> FALSE]
  ELSE [Twall |-> Zero, err |-> TRUE]

\* CNSSolver::GetCHTWallTemperature; err is the call of SU2_MPI::Error
GetCHTWallTemperature(iVertex, thermal_conductivity, dist_ij, There, Temperature_Ref) ==
  IF cfg.Kind_CHT_Coupling \in RecognisedAveraged
  THEN [Twall |-> AveragedTemperature(
                    There, RDiv(geo.ConjugateHeatVariable[iVertex][0], Temperature_Ref),
                    RDiv(RMul(thermal_conductivity, cfg.Viscosity_Ref), dist_ij),
                    geo.ConjugateHeatVariable[iVertex][2]),
        err |-> FALSE]
  ELSE IF cfg.Kind_CHT_Coupling \in RecognisedDirect
  THEN [Twall |-> RDiv(geo.ConjugateHeatVariable[iVertex][0], Temperature_Ref),
        err |-> FALSE]
  ELSE [Twall |-> Zero, err |-> TRUE]

\* the wall temperature one iteration of BC_Isothermal_Wall_Generic uses: the
\* call of GetCHTWallTemperature as written at the call site, the custom
\* value, or the value carried in Twall
WallTemperature(ps, iVertex, cht_mode, dist_ij, thermal_conductivity, There) ==
  IF cht_mode
  THEN GetCHTWallTemperature(iVertex, dist_ij, thermal_conductivity, There,
                             cfg.Temperature_Ref)
  ELSE IF cfg.PyCustom
  THEN [Twall |-> geo.CustomBoundaryTemperature[iVertex], err |-> FALSE]
  ELSE [Twall |-> ps.Twall, err |-> FALSE]

\* BC_Isothermal_Wall_Generic, lines 777-779: the thermal conductivity at iPoint
ThermalConductivity(iPoint) ==
  RMul(RMul(RDiv(Gamma, Gamma_Minus_One), cfg.Gas_ConstantND),
       RAdd(RDiv(nodes.LaminarViscosity[iPoint], cfg.Prandtl_Lam),
            RDiv(nodes.EddyViscosity[iPoint], cfg.Prandtl_Turb)))

\* BC_Isothermal_Wall_Generic, lines 811-826: the energy row of Jacobian_i
IsothermalJacobianRow(iPoint, Twall, Area, conductance) ==
  [c \in Vars |->
     IF c = 0
     THEN RMul(RMul(conductance,
                    RMul(RDiv(One, nodes.Density[iPoint]),
                         RAdd(RNeg(Twall),
                              RMul(RDiv(Gamma_Minus_One, cfg.Gas_ConstantND),
                                   RDiv(SquaredNorm(nodes.Velocity[iPoint]), R(2)))))),
               Area)
     ELSE IF c <= nDim THEN Zero
     ELSE RMul(RDiv(RMul(conductance, Gamma_Minus_One),
                    RMul(cfg.Gas_ConstantND, nodes.Density[iPoint])), Area)]

\* BC_Isothermal_Wall_Generic, lines 800-835: Res_Conv, Res_Visc and
\* Jacobian_i of a vertex with wall temperature Twall
IsothermalContribution(Jacobian_i, vtx, Area, dist_ij, thermal_conductivity, There, Twall) ==
  IF cfg.dynamic_grid
  THEN AddDynamicGridResidualContribution(
         vtx.iPoint, vtx.Normal_Neighbor, UnitNormalOf(vtx.Normal, Area), Area,
         geo.GridVel[vtx.iPoint],
         IF cfg.implicit
         THEN [Jacobian_i EXCEPT ![nDim + 1] =
                 IsothermalJacobianRow(vtx.iPoint, Twall, Area,
                                       RDiv(thermal_conductivity, dist_ij))]
         ELSE Jacobian_i,
         Zero,
         RMul(RMul(thermal_conductivity, RDiv(RNeg(RSub(There, Twall)), dist_ij)), Area))
  ELSE [Res_Conv |-> Zero,
        Res_Visc |-> RMul(RMul(thermal_conductivity,
                               RDiv(RNeg(RSub(There, Twall)), dist_ij)), Area),
        Jacobian_i |-> IF cfg.implicit
                       THEN [Jacobian_i EXCEPT ![nDim + 1] =
                               IsothermalJacobianRow(vtx.iPoint, Twall, Area,
                                                     RDiv(thermal_conductivity, dist_ij))]
                       ELSE Jacobian_i]

\* BC_Isothermal_Wall_Generic, lines 839-852: the energy residual, the
\* diagonal block and the deletion of the momentum rows
IsothermalUpdate(ps, iVertex, iPoint, dyn) ==
  [ps EXCEPT
     !.res[iPoint][nDim + 1] = AccumulateEnergy(@, dyn.Res_Conv, dyn.Res_Visc),
     !.jac = IF cfg.implicit
             THEN DeleteMomentumRows(AddBlock2Diag(@, iPoint, dyn.Jacobian_i), iPoint, 1)
             ELSE @,
     !.Jacobian_i = dyn.Jacobian_i,
     !.added[iVertex] = IF cfg.implicit THEN dyn.Jacobian_i ELSE <<>>]

\* the rest of the iteration once the wall temperature tw is known; a raised
\* error leaves the pass
IsothermalWithTwall(ps, iVertex, vtx, Area, dist_ij, thermal_conductivity, There, tw) ==
  IF tw.err THEN [ps EXCEPT !.err = TRUE]
  ELSE IsothermalUpdate(
         [ps EXCEPT !.Twall = tw.Twall, !.TwallAt[iVertex] = <<tw.Twall>>],
         iVertex, vtx.iPoint,
         IsothermalContribution(ps.Jacobian_i, vtx, Area, dist_ij,
                                thermal_conductivity, There, tw.Twall))

\* the iteration of the vertex loop of BC_Isothermal_Wall_Generic at a
\* domain-owned vertex
IsothermalOwnedVertex(ps, iVertex, vtx, cht_mode, dist_ij, thermal_conductivity, There) ==
  IsothermalWithTwall(
    StrongVelocity(ps, vtx.iPoint), iVertex, vtx, Norm(vtx.Normal), dist_ij,
    thermal_conductivity, There,
    WallTemperature(ps, iVertex, cht_mode, dist_ij, thermal_conductivity, There))

\* one iteration of the vertex loop of BC_Isothermal_Wall_Generic
IsothermalVertex(ps, iVertex, cht_mode) ==
  IF ~geo.Domain[geo.vertex[iVertex].iPoint] THEN ps
  ELSE IsothermalOwnedVertex(
         ps, iVertex, geo.vertex[iVertex], cht_mode,
         Distance(geo.Coord[geo.vertex[iVertex].iPoint],
                  geo.Coord[geo.vertex[iVertex].Normal_Neighbor]),
         ThermalConductivity(geo.vertex[iVertex].iPoint),
         nodes.Temperature[geo.vertex[iVertex].Normal_Neighbor])

\* the vertex loop of a wall pass, from vertex iVertex on; an error ends it
RECURSIVE WallVertexLoop(_, _, _)
WallVertexLoop(ps, iVertex, kind) ==
  IF iVertex > MaxBCVertex \/ ps.err THEN ps
  ELSE WallVertexLoop(
         IF kind = "heatflux" THEN HeatFluxVertex(ps, iVertex)
         ELSE IsothermalVertex(ps, iVertex, kind = "cht"),
         iVertex + 1, kind)

\* the solver state and the locals at entry of a wall pass of the given kind
WallPassEntry(kind) ==
  [ res |-> LinSysRes, jac |-> Jacobian,
    velOld |-> nodes.Velocity_Old, trunc |-> nodes.Vel_ResTruncError,
    Wall_HeatFlux |-> RDiv(cfg.Wall_HeatFlux, cfg.Heat_Flux_Ref),
    Twall |-> IF kind = "isothermal"
              THEN RDiv(cfg.Isothermal_Temperature, cfg.Temperature_Ref) ELSE Zero,
    Jacobian_i |-> IF cfg.implicit /\ (kind # "heatflux" \/ cfg.dynamic_grid)
                   THEN ZeroMat ELSE <<>>,
    TwallAt |-> [v \in BCVertices |-> <<>>],
    added |-> [v \in BCVertices |-> <<>>],
    err |-> FALSE ]

\* the solver state a wall pass leaves, ps being the state after its vertex
\* loop
WallPassExit(kind, ps) ==
  /\ LinSysRes' = ps.res
  /\ Jacobian' = ps.jac
  /\ nodes' = [nodes EXCEPT !.Velocity_Old = ps.velOld,
                            !.Vel_ResTruncError = ps.trunc]
  /\ loc' = [passes |-> loc.passes + 1, last |-> kind, prev |-> loc.last,
             TwallAt |-> ps.TwallAt, added |-> ps.added]
  /\ out' = [error |-> IF ps.err THEN "Unknown CHT coupling method." ELSE ""]
  /\ pc' = IF ps.err THEN "aborted" ELSE "wall"

\* a wall pass of the given kind over the marker, start to end
WallPass(kind) ==
  /\ pc = "wall"
  /\ loc.passes < MaxPass
  /\ WallPassExit(kind, WallVertexLoop(WallPassEntry(kind), 1, kind))
  /\ UNCHANGED <<cfg, geo, EdgeFluxes>>

BC_HeatFlux_Wall == WallPass("heatflux")
BC_Isothermal_Wall == WallPass("isothermal")
BC_ConjugateHeat_Interface == WallPass("cht")

\* the residual the flux passes have assembled before the first wall pass
WallInitialResidual == [p \in BCPoints |-> [v \in Vars |-> R(p + v + 1)]]

InitWall ==
  /\ pc = "wall"
  /\ \E implicit \in BOOLEAN, dynamic_grid \in BOOLEAN, PyCustom \in BOOLEAN,
        kind \in CHTCouplingKinds :
       cfg = [implicit |-> implicit, dynamic_grid |-> dynamic_grid,
              PyCustom |-> PyCustom, Kind_CHT_Coupling |-> kind,
              Wall_HeatFlux |-> R(3), Heat_Flux_Ref |-> R(2),
              Isothermal_Temperature |-> R(6), Temperature_Ref |-> R(2),
              Prandtl_Lam |-> Rat(3, 4), Prandtl_Turb |-> Rat(9, 10),
              Gas_ConstantND |-> R(2), Viscosity_Ref |-> R(3)]
  /\ \E Domain \in [0 .. (MaxBCVertex - 1) -> BOOLEAN] :
       geo = [vertex |-> [v \in BCVertices |->
                            [iPoint |-> v - 1, Normal |-> BCNormalOf(v),
                             Normal_Neighbor |-> MaxBCVertex + v - 1]],
              Domain |-> [p \in BCPoints |-> IF p < MaxBCVertex THEN Domain[p] ELSE TRUE],
              Coord |-> [p \in BCPoints |-> BCCoordOf(p)],
              GridVel |-> [p \in BCPoints |-> Vec2(R(1), R(p + 1))],
              CustomBoundaryHeatFlux |-> [v \in BCVertices |-> R(v + 3)],
              CustomBoundaryTemperature |-> [v \in BCVertices |-> R(v + 6)],
              ConjugateHeatVariable |->
                [v \in BCVertices |-> [k \in 0 .. 2 |->
                   IF k = 0 THEN R(10 + v) ELSE IF k = 2 THEN R(v + 1) ELSE Zero]]]
  /\ nodes = [Density |-> [p \in BCPoints |-> R(p + 1)],
              Pressure |-> [p \in BCPoints |-> R(p + 2)],
              LaminarViscosity |-> [p \in BCPoints |-> R(p + 1)],
              EddyViscosity |-> [p \in BCPoints |-> R(p % 2)],
              Temperature |-> [p \in BCPoints |-> R(p + 3)],
              Velocity |-> [p \in BCPoints |-> Vec2(R(1), R(p))],
              GradVel |-> [p \in BCPoints |->
                             [i \in Dims |-> [j \in Dims |-> R(i + 2 * j + p)]]],
              Velocity_Old |-> [p \in BCPoints |-> Vec2(R(1), R(-1))],
              Vel_ResTruncError |-> [p \in BCPoints |-> Vec2(R(2), R(1))]]
  /\ LinSysRes = WallInitialResidual
  /\ EdgeFluxes = <<>>
  /\ Jacobian = [b \in BCPoints \X BCPoints |->
                   [r \in Vars |-> [c \in Vars |-> R(1 + r + 2 * c + b[1])]]]
  /\ loc = [passes |-> 0, last |-> "", prev |-> "",
            TwallAt |-> [v \in BCVertices |-> <<>>],
            added |-> [v \in BCVertices |-> <<>>]]
  /\ out = [error |-> ""]

NextWall ==
  \/ BC_HeatFlux_Wall
  \/ BC_Isothermal_Wall
  \/ BC_ConjugateHeat_Interface

SpecWall == InitWall /\ [][NextWall]_vars

-----------------------------------------------------------------------------
(* Claims on the wall boundary passes *)

\* the marker vertices whose point is domain-owned
OwnedBCVertices == {v \in BCVertices : geo.Domain[geo.vertex[v].iPoint]}

\* C4: after a heat-flux, isothermal or CHT wall pass on a stationary mesh the
\* old velocity of every domain-owned marker vertex is zero in every
\* component, and with implicit time integration every off-diagonal entry of
\* its momentum rows (rows 1..nDim) of the Jacobian is zero, whatever was added
\* to the diagonal block earlier in the pass.
C4_StrongVelocityEnforcement ==
  (pc = "wall" /\ loc.passes > 0) =>
    \A v \in OwnedBCVertices :
      LET iPoint == geo.vertex[v].iPoint
      IN  /\ ~cfg.dynamic_grid =>
               \A d \in Dims : nodes.Velocity_Old[iPoint][d] = Zero
          /\ cfg.implicit =>
               \A iVar \in 1 .. nDim, q \in BCPoints, c \in Vars :
                 (q # iPoint \/ c # iVar) => Jacobian[<<iPoint, q>>][iVar][c] = Zero

\* an implicit isothermal pass on a stationary mesh has run over a marker whose
\* vertices are all domain-owned, adding a block to each diagonal block
C4_Witness ==
  /\ pc = "wall" /\ loc.last = "isothermal"
  /\ cfg.implicit /\ ~cfg.dynamic_grid
  /\ OwnedBCVertices = BCVertices
  /\ \A v \in BCVertices : loc.added[v] # <<>> /\ loc.added[v] # ZeroMat

\* C5: on a non-moving mesh BC_HeatFlux_Wall changes the energy-row residual of
\* every domain-owned marker vertex by exactly -(Q*A), Q the marker's heat flux
\* over the heat-flux reference (or the vertex's custom value on a custom
\* patch) and A the norm of the vertex normal.
C5_HeatFluxEnergyResidual ==
  [][ (pc = "wall" /\ loc'.passes = loc.passes + 1 /\ loc'.last = "heatflux"
       /\ ~cfg.dynamic_grid) =>
        \A v \in OwnedBCVertices :
          LET iPoint == geo.vertex[v].iPoint
              Q == IF cfg.PyCustom THEN geo.CustomBoundaryHeatFlux[v]
                   ELSE RDiv(cfg.Wall_HeatFlux, cfg.Heat_Flux_Ref)
              A == Norm(geo.vertex[v].Normal)
          IN  LinSysRes'[iPoint][nDim + 1] =
                RSub(LinSysRes[iPoint][nDim + 1], RMul(Q, A)) ]_vars

\* a heat-flux pass on a non-moving mesh has run over domain-owned vertices of
\* a custom patch
C5_Witness ==
  /\ pc = "wall" /\ loc.last = "heatflux" /\ ~cfg.dynamic_grid /\ cfg.PyCustom
  /\ OwnedBCVertices = BCVertices

\* the transport coefficient and distance of marker vertex v, as the isothermal
\* pass computes them
ConductivityAt(v) ==
  LET iPoint == geo.vertex[v].iPoint
      Cp == RMul(RDiv(Gamma, Gamma_Minus_One), cfg.Gas_ConstantND)
  IN  RMul(Cp, RAdd(RDiv(nodes.LaminarViscosity[iPoint], cfg.Prandtl_Lam),
                    RDiv(nodes.EddyViscosity[iPoint], cfg.Prandtl_Turb)))
NeighbourDistanceAt(v) ==
  Distance(geo.Coord[geo.vertex[v].iPoint], geo.Coord[geo.vertex[v].Normal_Neighbor])

\* C8: in the averaged coupling modes the wall temperature a CHT pass uses at a
\* domain-owned vertex is (There*h_here + Tconj*h_conj)/(h_here + h_conj) with
\* h_here = conductivity * viscosity reference / wall-to-neighbour distance.
C8_AveragedWallTemperature ==
  (pc = "wall" /\ loc.last = "cht" /\ cfg.Kind_CHT_Coupling \in RecognisedAveraged) =>
    \A v \in OwnedBCVertices :
      LET There  == nodes.Temperature[geo.vertex[v].Normal_Neighbor]
          Tconj  == RDiv(geo.ConjugateHeatVariable[v][0], cfg.Temperature_Ref)
          h_conj == geo.ConjugateHeatVariable[v][2]
          h_here == RDiv(RMul(ConductivityAt(v), cfg.Viscosity_Ref),
                         NeighbourDistanceAt(v))
      IN  loc.TwallAt[v] =
            <<RDiv(RAdd(RMul(There, h_here), RMul(Tconj, h_conj)),
                   RAdd(h_here, h_conj))>>

\* C9: GetCHTWallTemperature raises the fatal error exactly when the coupling
\* mode is none of the four recognised ones, returns the conjugate temperature
\* over the reference temperature in the two direct modes, and the plain
\* isothermal pass never raises the error.
C9_CouplingDispatch ==
  /\ \A v \in BCVertices :
       GetCHTWallTemperature(v, NeighbourDistanceAt(v), ConductivityAt(v),
                             nodes.Temperature[geo.vertex[v].Normal_Neighbor],
                             cfg.Temperature_Ref).err
         <=> cfg.Kind_CHT_Coupling \notin
               {"AVERAGED_TEMPERATURE_NEUMANN_HEATFLUX",
                "AVERAGED_TEMPERATURE_ROBIN_HEATFLUX",
                "DIRECT_TEMPERATURE_NEUMANN_HEATFLUX",
                "DIRECT_TEMPERATURE_ROBIN_HEATFLUX"}
  /\ out.error # "" <=>
       /\ loc.last = "cht"
       /\ OwnedBCVertices # {}
       /\ cfg.Kind_CHT_Coupling = "OTHER_COUPLING"
  /\ out.error # "" => (out.error = "Unknown CHT coupling method." /\ pc = "aborted")
  /\ (loc.last = "cht" /\ cfg.Kind_CHT_Coupling \in
        {"DIRECT_TEMPERATURE_NEUMANN_HEATFLUX", "DIRECT_TEMPERATURE_ROBIN_HEATFLUX"}) =>
       \A v \in OwnedBCVertices :
         loc.TwallAt[v] =
           <<RDiv(geo.ConjugateHeatVariable[v][0], cfg.Temperature_Ref)>>
  /\ loc.last \in {"isothermal", "heatflux"} => out.error = ""

\* a CHT pass met an unrecognised coupling mode at a domain-owned vertex after
\* a pass of another kind went through with the same configuration
C9_Witness ==
  /\ pc = "aborted" /\ out.error = "Unknown CHT coupling method."
  /\ loc.passes = 2 /\ loc.last = "cht"

-----------------------------------------------------------------------------
(* Wall-function solve: CNSSolver::SetTauWall_WF *)

\* calls of SetTauWall_WF in a run
MaxWFCall == 2

max_iter == 10
tol == Rat(1, 1000000)
relax == Rat(1, 4)

\* markers 1 and 2; marker 1 has the vertices 1..MaxBCVertex on the points
\* 0..MaxBCVertex-1, marker 2 one vertex on point MaxBCVertex; the nearest
\* interior neighbour of point p is point MaxBCVertex+1+p
WFMarkers == 1 .. 2
WFVertices == {mv \in WFMarkers \X (1 .. MaxBCVertex) : mv[1] = 1 \/ mv[2] = 1}
WFWallPoints == 0 .. MaxBCVertex
WFPoints == 0 .. (2 * MaxBCVertex + 1)
WFPointOf(mv) == IF mv[1] = 1 THEN mv[2] - 1 ELSE MaxBCVertex

\* the marker vertices in the order of the two nested loops
WFVertexOrder ==
  [i \in 1 .. (MaxBCVertex + 1) |-> IF i <= MaxBCVertex THEN <<1, i>> ELSE <<2, 1>>]

\* velocity gradients of a wall point: the initial one and a pure shear
WFGradient == [i \in Dims |-> [j \in Dims |-> R(1 + i - 2 * j)]]
WFShearGradient == [i \in Dims |-> [j \in Dims |-> IF i = 0 /\ j = 1 THEN One ELSE Zero]]

\* the quarter-steps between the stress-tensor wall shear stress of a point
\* and the fixed point of its law-of-the-wall relation, one per flow state
WFQuarterSteps == <<0, 2, 9, 10, 11>>
WFUpdatedQuarterSteps == {2, 10}

\* lines 976-993: the wall shear stress "in the regular fashion", the magnitude
\* of the wall-tangential part of the laminar stress tensor on the surface
StressTensorTauWall(iPoint, UnitNormal) ==
  LET tau == ComputeStressTensor(nodes.GradVel[iPoint], nodes.LaminarViscosity[iPoint])
      TauElem == [d \in Dims |-> DotProduct(tau[d], UnitNormal)]
      TauNormal == DotProduct(TauElem, UnitNormal)
      TauTangent == [d \in Dims |-> RSub(TauElem[d], RMul(TauNormal, UnitNormal[d]))]
  IN  Norm(TauTangent)

\* a starting guess read from the value cached at the point
WallFunctionSeedCached(iPoint, Tau_Wall) == nodes.TauWall[iPoint]

\* line 999: Tau_Wall_Old = Tau_Wall, the starting guess of the iteration
WallFunctionSeed(iPoint, Tau_Wall) == Tau_Wall

\* lines 1007-1031: the wall shear stress the law of the wall (friction
\* velocity, u+, Nichols-Nelson y+, Spalding) returns for the guess
\* Tau_Wall_Old. The relation is transcendental; it is modelled by its fixed
\* point, FixedPoint, and a unit residual on either side of it.
LawOfTheWall(Tau_Wall_Old, FixedPoint) ==
  IF RLt(Tau_Wall_Old, FixedPoint) THEN RAdd(Tau_Wall_Old, One)
  ELSE IF RLt(FixedPoint, Tau_Wall_Old) THEN RSub(Tau_Wall_Old, One)
  ELSE Tau_Wall_Old

\* lines 1035-1043: the loop state after an evaluation Tau_Wall of the law of
\* the wall; warned is the warning and the break
WallFunctionStep(it, Tau_Wall) ==
  [ Tau_Wall |-> Tau_Wall,
    guess |-> it.Tau_Wall_Old,
    Tau_Wall_Old |-> RAdd(it.Tau_Wall_Old, RMul(relax, RSub(Tau_Wall, it.Tau_Wall_Old))),
    diff |-> RAbs(RSub(Tau_Wall, it.Tau_Wall_Old)),
    counter |-> it.counter + 1,
    warned |-> it.counter + 1 > max_iter ]

\* the while loop of lines 1003-1044 from the loop state it
RECURSIVE WallFunctionLoop(_, _)
WallFunctionLoop(it, FixedPoint) ==
  IF ~RLt(tol, it.diff) \/ it.warned THEN it
  ELSE WallFunctionLoop(
         WallFunctionStep(it, LawOfTheWall(it.Tau_Wall_Old, FixedPoint)), FixedPoint)

\* what the call did at vertex mv: the first iterate, the value cached at
\* entry, and the loop state at exit (guess is the value the last evaluation
\* of the law of the wall started from)
WallFunctionRecord(ws, mv, iPoint, seed, it) ==
  [ws.did EXCEPT ![mv] =
     [seed |-> seed, cached |-> nodes.TauWall[iPoint],
      counter |-> it.counter, diff |-> it.diff, warned |-> it.warned,
      guess |-> it.guess, Tau_Wall_Old |-> it.Tau_Wall_Old, Tau_Wall |-> it.Tau_Wall]]

\* a store of the under-relaxed guess in place of the last computed value
WallFunctionStoreRelaxed(ws, mv, iPoint, seed, it) ==
  [ TauWall |-> [ws.TauWall EXCEPT ![iPoint] = it.Tau_Wall_Old],
    did |-> WallFunctionRecord(ws, mv, iPoint, seed, it) ]

\* line 1048: nodes->SetTauWall(iPoint, Tau_Wall), with the record of the solve
WallFunctionStore(ws, mv, iPoint, seed, it) ==
  [ TauWall |-> [ws.TauWall EXCEPT ![iPoint] = it.Tau_Wall],
    did |-> WallFunctionRecord(ws, mv, iPoint, seed, it) ]

\* lines 999-1048 at a vertex whose stress-tensor wall shear stress is Tau_Wall
WallFunctionSolve(ws, mv, iPoint, Tau_Wall) ==
  WallFunctionStore(
    ws, mv, iPoint, WallFunctionSeed(iPoint, Tau_Wall),
    WallFunctionLoop(
      [Tau_Wall |-> Tau_Wall, guess |-> WallFunctionSeed(iPoint, Tau_Wall),
       Tau_Wall_Old |-> WallFunctionSeed(iPoint, Tau_Wall),
       diff |-> One, counter |-> 0, warned |-> FALSE],
      RAdd(Tau_Wall, RMul(R(nodes.QuarterSteps[iPoint]), relax))))

\* one iteration of the vertex loop of SetTauWall_WF on ws, the cached wall
\* shear stresses and the record of what the call did at each vertex
WallFunctionVertex(ws, mv) ==
  IF ~cfg.Viscous_Wall[mv[1]] \/ ~geo.Domain[WFPointOf(mv)] THEN ws
  ELSE WallFunctionSolve(
         ws, mv, WFPointOf(mv),
         StressTensorTauWall(WFPointOf(mv),
                             UnitNormalOf(geo.Normal[mv], Norm(geo.Normal[mv]))))

RECURSIVE WallFunctionVertexLoop(_, _)
WallFunctionVertexLoop(ws, i) ==
  IF i > Len(WFVertexOrder) THEN ws
  ELSE WallFunctionVertexLoop(WallFunctionVertex(ws, WFVertexOrder[i]), i + 1)

\* the state a call of SetTauWall_WF leaves, ws being the result of its loops
WallFunctionExit(ws) ==
  /\ nodes' = [nodes EXCEPT !.TauWall = ws.TauWall]
  /\ loc' = [loc EXCEPT !.calls = loc.calls + 1, !.dirty = FALSE, !.did = ws.did]
  /\ out' = [warnings |-> {mv \in WFVertices : ws.did[mv] # <<>> /\ ws.did[mv].warned}]

SetTauWall_WF ==
  /\ pc = "wf"
  /\ loc.calls < MaxWFCall
  /\ WallFunctionExit(WallFunctionVertexLoop(
       [TauWall |-> nodes.TauWall, did |-> [mv \in WFVertices |-> <<>>]], 1))
  /\ UNCHANGED <<pc, cfg, geo, LinSysRes, EdgeFluxes, Jacobian>>

\* between two calls the flow solver changes the state at a wall point
FlowUpdate ==
  /\ pc = "wf"
  /\ loc.calls = 1
  /\ loc.flowUpdates = 0
  /\ \E iPoint \in WFWallPoints, k \in WFUpdatedQuarterSteps :
       nodes' = [nodes EXCEPT !.GradVel[iPoint] = WFShearGradient,
                              !.QuarterSteps[iPoint] = k]
  /\ loc' = [loc EXCEPT !.flowUpdates = 1, !.dirty = TRUE]
  /\ UNCHANGED <<pc, cfg, geo, LinSysRes, EdgeFluxes, Jacobian, out>>

InitWF ==
  /\ pc = "wf"
  /\ \E vw \in [WFMarkers -> BOOLEAN] : cfg = [Viscous_Wall |-> vw]
  /\ \E Domain \in [WFWallPoints -> BOOLEAN] :
       geo = [Normal |-> [mv \in WFVertices |-> BCNormalOf(mv[1] + mv[2])],
              Domain |-> [p \in WFPoints |-> IF p \in WFWallPoints THEN Domain[p] ELSE TRUE]]
  /\ \E b \in 1 .. Len(WFQuarterSteps) :
       nodes = [LaminarViscosity |-> [p \in WFPoints |-> R(p + 1)],
                GradVel |-> [p \in WFPoints |-> WFGradient],
                QuarterSteps |-> [p \in WFPoints |->
                                    WFQuarterSteps[((b + p) % Len(WFQuarterSteps)) + 1]],
                TauWall |-> [p \in WFPoints |-> Zero]]
  /\ LinSysRes = <<>>
  /\ EdgeFluxes = <<>>
  /\ Jacobian = <<>>
  /\ loc = [calls |-> 0, flowUpdates |-> 0, dirty |-> FALSE,
            did |-> [mv \in WFVertices |-> <<>>]]
  /\ out = [warnings |-> {}]

NextWF ==
  \/ SetTauWall_WF
  \/ FlowUpdate

SpecWF == InitWF /\ [][NextWF]_vars

\* the vertices a call of SetTauWall_WF solves: domain-owned, on a marker
\* flagged as a viscous wall
WFSolvedVertices ==
  {mv \in WFVertices : cfg.Viscous_Wall[mv[1]] /\ geo.Domain[WFPointOf(mv)]}

\* the magnitude of the traction of the laminar stress tensor along the wall
\* tangent (-n_1, n_0), n the unit normal pointing into the wall, at vertex mv
TangentialTraction(mv) ==
  LET iPoint == WFPointOf(mv)
      mu == nodes.LaminarViscosity[iPoint]
      g == nodes.GradVel[iPoint]
      div == RAdd(g[0][0], g[1][1])
      A == Norm(geo.Normal[mv])
      n == [d \in Dims |-> RNeg(RDiv(geo.Normal[mv][d], A))]
      tau(i, j) == RSub(RMul(mu, RAdd(g[i][j], g[j][i])),
                        IF i = j THEN RMul(Rat(2, 3), RMul(mu, div)) ELSE Zero)
      t(i) == RAdd(RMul(tau(i, 0), n[0]), RMul(tau(i, 1), n[1]))
  IN  RAbs(RSub(RMul(t(1), n[0]), RMul(t(0), n[1])))

\* C10 as stated: for every domain-owned viscous-wall vertex the first iterate
\* of the wall-function solve is the wall shear stress cached at the point by
\* the previous call (zero on the first call)
C10_SeedIsCachedValue ==
  \A mv \in WFSolvedVertices :
    loc.calls > 0 => loc.did[mv].seed = loc.did[mv].cached

\* C10 amended: for every domain-owned viscous-wall vertex the first iterate
\* of the wall-function solve is the wall shear stress the call itself computes
\* from the laminar stress tensor at the point, whatever value is cached there
C10_SeedIsStressTensorValue ==
  [][SetTauWall_WF =>
       \A mv \in WFSolvedVertices : loc'.did[mv].seed = TangentialTraction(mv)]_vars

\* a second call has solved a vertex whose cached wall shear stress differs
\* from the stress-tensor value it started from
C10_Witness ==
  /\ loc.calls = 2
  /\ \E mv \in WFSolvedVertices :
       /\ loc.did[mv].seed = TangentialTraction(mv)
       /\ loc.did[mv].cached # Zero
       /\ loc.did[mv].cached # loc.did[mv].seed

\* C11: for every vertex the iteration loop of SetTauWall_WF terminates and
\* the update step is executed at most 10 (max_iter) times per vertex per call
C11_AtMostTenUpdates ==
  \A mv \in WFVertices :
    loc.did[mv] # <<>> => loc.did[mv].counter <= max_iter

\* the fixed point of the law-of-the-wall relation at vertex mv
WFFixedPoint(mv) ==
  RAdd(TangentialTraction(mv), RMul(R(nodes.QuarterSteps[WFPointOf(mv)]), relax))

\* the position of vertex mv in the marker and vertex loops
WFOrderOf(mv) == CHOOSE i \in DOMAIN WFVertexOrder : WFVertexOrder[i] = mv

\* C12: a call of SetTauWall_WF does not abort and solves every domain-owned
\* viscous-wall vertex of every marker; a vertex whose loop ends with the
\* change still above the tolerance gets the warning; the value stored for a
\* vertex is the one its last update step computed (the law of the wall at the
\* last guess, at distance diff from that guess), not the under-relaxed guess
C12_NonConvergenceRecoverable ==
  [][SetTauWall_WF =>
       /\ pc' = "wf"
       /\ \A mv \in WFSolvedVertices :
            /\ loc'.did[mv] # <<>>
            /\ RLt(tol, loc'.did[mv].diff) => mv \in out'.warnings
            /\ nodes'.TauWall[WFPointOf(mv)]
                 = LawOfTheWall(loc'.did[mv].guess, WFFixedPoint(mv))
            /\ RAbs(RSub(nodes'.TauWall[WFPointOf(mv)], loc'.did[mv].guess))
                 = loc'.did[mv].diff]_vars

\* a call has warned about a vertex whose change is still above the tolerance,
\* has stored its last computed value, which is not the under-relaxed guess,
\* and has solved a vertex that comes later in the loops
C12_Witness ==
  /\ loc.calls > 0
  /\ \E mv \in WFSolvedVertices, later \in WFSolvedVertices :
       /\ mv \in out.warnings
       /\ RLt(tol, loc.did[mv].diff)
       /\ nodes.TauWall[WFPointOf(mv)] = loc.did[mv].Tau_Wall
       /\ loc.did[mv].Tau_Wall # loc.did[mv].Tau_Wall_Old
       /\ WFOrderOf(mv) < WFOrderOf(later)
       /\ loc.did[later] # <<>>
       /\ nodes.TauWall[WFPointOf(later)] = loc.did[later].Tau_Wall

\* C13: a call of SetTauWall_WF made with the flow state unchanged since the
\* previous call, the cache holding that call's output, stores for every
\* vertex a wall shear stress within the tolerance of the one stored before
C13_Idempotent ==
  [][(SetTauWall_WF /\ loc.calls > 0 /\ ~loc.dirty) =>
       \A mv \in WFSolvedVertices :
         RLt(RAbs(RSub(nodes'.TauWall[WFPointOf(mv)], nodes.TauWall[WFPointOf(mv)])),
             tol)]_vars

\* a second call on an unchanged flow state has solved a vertex whose cache
\* held the non-zero, non-converged output of the first call
C13_Witness ==
  /\ loc.calls = 2
  /\ loc.flowUpdates = 0
  /\ \E mv \in WFSolvedVertices :
       /\ loc.did[mv].cached # Zero
       /\ loc.did[mv].cached = nodes.TauWall[WFPointOf(mv)]
       /\ loc.did[mv].warned

\* C19: the warning is emitted for a vertex only when the last measured change
\* of its wall shear stress is still above the tolerance
C19_WarningOnlyIfNotConverged ==
  \A mv \in WFVertices :
    (loc.did[mv] # <<>> /\ loc.did[mv].warned) => RLt(tol, loc.did[mv].diff)

\* C18: for every edge (i,j) Viscous_Residual has processed, the kernel got
\* the wall shear stress cached at vertex i in its i slot and the one cached
\* at vertex j in its j slot
C18_TauWallSlots ==
  \A e \in loc.done :
    /\ NumericsInputs(e[1], e[2], geo.Normal[e]).TauWall_i = nodes.TauWall[e[1]]
    /\ NumericsInputs(e[1], e[2], geo.Normal[e]).TauWall_j = nodes.TauWall[e[2]]

\* the sum of the values the threads 1..t have returned
RECURSIVE SumReturned(_)
SumReturned(t) == IF t = 0 THEN 0 ELSE out.ret[t] + SumReturned(t - 1)

\* C16: during a call no vertex is processed by two threads; once every
\* thread has returned, each vertex has been processed by exactly one thread,
\* each thread has returned the number of non-physical vertices among those it
\* processed, and the returned values add up to the number of non-physical
\* vertices of the partition, for every thread count and chunk size
C16_ThreadCountsAddUp ==
  pc = "prim" =>
    /\ \A t \in Threads, u \in Threads :
         t # u => loc.thr[t].seen \cap loc.thr[u].seen = {}
    /\ (\A t \in Threads : loc.thr[t].at = "returned") =>
         /\ \A p \in Points :
              Cardinality({t \in Threads : p \in loc.thr[t].seen}) = 1
         /\ \A t \in Threads :
              out.ret[t] = Cardinality(NonPhysicalIn(loc.thr[t].seen))
         /\ SumReturned(cfg.nThreads) = Cardinality(NonPhysicalIn(Points))

\* two threads have shared the loop and returned: both processed vertices,
\* they returned different counts, and some but not all vertices are
\* non-physical
C16_Witness ==
  /\ pc = "prim" /\ cfg.nThreads = 2
  /\ \A t \in Threads : loc.thr[t].at = "returned" /\ loc.thr[t].seen # {}
  /\ out.ret[1] # out.ret[2]
  /\ out.ret[1] + out.ret[2] = Cardinality(NonPhysicalIn(Points))
  /\ NonPhysicalIn(Points) # {} /\ NonPhysicalIn(Points) # Points

-----------------------------------------------------------------------------
(* Strain and vorticity maxima: CNSSolver::Preprocessing *)

RMax(a, b) == IF RLt(a, b) THEN b ELSE a

\* the velocity gradients a point can hold: du/dy and dv/dx, no normal strain
PreGradients ==
  { [i \in Dims |-> [j \in Dims |-> IF i = 0 /\ j = 1 THEN R(1) ELSE Zero]],
    [i \in Dims |-> [j \in Dims |-> IF i = 0 /\ j = 1 THEN R(1)
                                     ELSE IF i = 1 /\ j = 0 THEN R(-1) ELSE Zero]],
    [i \in Dims |-> [j \in Dims |-> IF i = 0 /\ j = 1 THEN R(2)
                                     ELSE IF i = 1 /\ j = 0 THEN R(1) ELSE Zero]] }

\* the maxima the previous call can have left in the solver
PreStaleMaxima == {Zero, R(7)}

\* the maxima of the other partitions, as MPI_MAX sees them
PreRemoteMaxima == {Zero, R(9)}

\* CNSVariable::SetVorticity_StrainMag at one point: the vorticity vector and
\* the magnitude of the deviatoric strain rate of the velocity gradient g
VorticityStrainMag(g) ==
  LET div == RAdd(g[0][0], g[1][1])
      dev(i) == RSub(g[i][i], RMul(Rat(1, 3), div))
      shear == RMul(Half, RAdd(g[0][1], g[1][0]))
      sum == RAdd(RAdd(RMul(dev(0), dev(0)), RMul(dev(1), dev(1))),
                  RMul(R(2), RMul(shear, shear)))
  IN  [ Vorticity |-> <<Zero, Zero, RSub(g[1][0], g[0][1])>>,
        StrainMag |-> RSqrt(RMul(R(2), sum)) ]

\* line 160: Omega = sqrt(Vorticity[0]^2 + Vorticity[1]^2 + Vorticity[2]^2)
OmegaOf(Vorticity) ==
  RSqrt(RAdd(RAdd(RMul(Vorticity[1], Vorticity[1]), RMul(Vorticity[2], Vorticity[2])),
             RMul(Vorticity[3], Vorticity[3])))

\* a merge in which the last thread through the critical section wins
MergeOverwrites(shared, local) == local

\* lines 168-169: StrainMag_Max = max(StrainMag_Max, strainMax)
MergeMax(shared, local) == RMax(shared, local)

\* SU2_OMP_MASTER, lines 144-148: the master thread resets the shared maxima
Pre_MasterReset ==
  /\ pc = "pre"
  /\ loc.thr[1].at = "master"
  /\ out' = [StrainMag_Max |-> Zero, Omega_Max |-> Zero]
  /\ loc' = [loc EXCEPT !.thr[1].at = "barrier"]
  /\ UNCHANGED <<pc, cfg, geo, nodes, LinSysRes, EdgeFluxes, Jacobian>>

\* SU2_OMP_BARRIER, line 149: thread t leaves once every thread has arrived
Pre_Barrier(t) ==
  /\ pc = "pre"
  /\ loc.thr[t].at = "barrier"
  /\ \A u \in Threads : loc.thr[u].at \in {"barrier", "vort"}
  /\ loc' = [loc EXCEPT !.thr[t].at = "vort"]
  /\ UNCHANGED <<pc, cfg, geo, nodes, LinSysRes, EdgeFluxes, Jacobian, out>>

\* line 151: nodes->SetVorticity_StrainMag(), a work-shared loop all threads
\* leave together; line 153: the thread-local maxima start at zero
Pre_SetVorticity_StrainMag ==
  /\ pc = "pre"
  /\ \A u \in Threads : loc.thr[u].at = "vort"
  /\ nodes' = [nodes EXCEPT
                 !.Vorticity = [p \in Points |->
                                  VorticityStrainMag(nodes.Gradient[p]).Vorticity],
                 !.StrainMag = [p \in Points |->
                                  VorticityStrainMag(nodes.Gradient[p]).StrainMag]]
  /\ loc' = [loc EXCEPT !.thr = [u \in Threads |->
                                   [at |-> "loop", iPoint |-> 0,
                                    strainMax |-> Zero, omegaMax |-> Zero]]]
  /\ UNCHANGED <<pc, cfg, geo, LinSysRes, EdgeFluxes, Jacobian, out>>

\* the loop state of a thread after iteration iPoint, lines 158-163
PrePointUpdate(thr, iPoint) ==
  [ at |-> "loop", iPoint |-> iPoint + 1,
    strainMax |-> RMax(thr.strainMax, nodes.StrainMag[iPoint]),
    omegaMax |-> RMax(thr.omegaMax, OmegaOf(nodes.Vorticity[iPoint])) ]

\* one iteration of the static, nowait loop of lines 155-165 in thread t
Pre_Point(t) ==
  /\ pc = "pre"
  /\ loc.thr[t].at = "loop"
  /\ PendingPoints(t) # {}
  /\ loc' = [loc EXCEPT !.thr[t] =
               PrePointUpdate(loc.thr[t],
                              CHOOSE p \in PendingPoints(t) :
                                \A q \in PendingPoints(t) : p <= q)]
  /\ UNCHANGED <<pc, cfg, geo, nodes, LinSysRes, EdgeFluxes, Jacobian, out>>

\* SU2_OMP_CRITICAL, lines 166-170: thread t merges its local maxima
Pre_Critical(t) ==
  /\ pc = "pre"
  /\ loc.thr[t].at = "loop"
  /\ PendingPoints(t) = {}
  /\ out' = [StrainMag_Max |-> MergeMax(out.StrainMag_Max, loc.thr[t].strainMax),
             Omega_Max |-> MergeMax(out.Omega_Max, loc.thr[t].omegaMax)]
  /\ loc' = [loc EXCEPT !.thr[t].at = "merged"]
  /\ UNCHANGED <<pc, cfg, geo, nodes, LinSysRes, EdgeFluxes, Jacobian>>

\* lines 172-183: on the finest mesh with full communication, after a barrier
\* the master thread takes the maximum over the partitions
Pre_Allreduce ==
  /\ pc = "pre"
  /\ cfg.commFull
  /\ ~loc.reduced
  /\ \A u \in Threads : loc.thr[u].at = "merged"
  /\ \E remote \in PreRemoteMaxima :
       out' = [StrainMag_Max |-> RMax(out.StrainMag_Max, remote),
               Omega_Max |-> RMax(out.Omega_Max, remote)]
  /\ loc' = [loc EXCEPT !.reduced = TRUE]
  /\ UNCHANGED <<pc, cfg, geo, nodes, LinSysRes, EdgeFluxes, Jacobian>>

InitPre ==
  /\ pc = "pre"
  /\ \E n \in 1 .. MaxThread, cf \in BOOLEAN :
       cfg = [nThreads |-> n, omp_chunk_size |-> 1, commFull |-> cf]
  /\ geo = <<>>
  /\ \E g \in [Points -> PreGradients] :
       nodes = [Gradient |-> g,
                Vorticity |-> [p \in Points |-> <<Zero, Zero, Zero>>],
                StrainMag |-> [p \in Points |-> Zero]]
  /\ LinSysRes = <<>>
  /\ EdgeFluxes = <<>>
  /\ Jacobian = <<>>
  /\ loc = [thr |-> [t \in 1 .. cfg.nThreads |->
                       [at |-> IF t = 1 THEN "master" ELSE "barrier", iPoint |-> 0,
                        strainMax |-> Zero, omegaMax |-> Zero]],
            reduced |-> FALSE]
  /\ \E stale \in PreStaleMaxima :
       out = [StrainMag_Max |-> stale, Omega_Max |-> stale]

NextPre ==
  \/ Pre_MasterReset
  \/ \E t \in Threads : Pre_Barrier(t)
  \/ Pre_SetVorticity_StrainMag
  \/ \E t \in Threads : Pre_Point(t)
  \/ \E t \in Threads : Pre_Critical(t)
  \/ Pre_Allreduce

SpecPre == InitPre /\ [][NextPre]_vars

\* the largest of the values f[p], p in S, and zero
RECURSIVE MaxOver(_, _)
MaxOver(f, S) ==
  IF S = {} THEN Zero
  ELSE LET p == CHOOSE x \in S : TRUE
       IN  RMax(f[p], MaxOver(f, S \ {p}))

\* the vorticity magnitude of point p, |dv/dx - du/dy| in two dimensions
PreOmega == [p \in Points |-> RAbs(RSub(nodes.Gradient[p][1][0], nodes.Gradient[p][0][1]))]

\* C15: in every interleaving, once all threads have merged (and before the
\* reduction over the partitions) StrainMag_Max and Omega_Max are the maxima
\* over all points of the strain and vorticity magnitudes, and at least zero;
\* the master's reset is never pending once a thread has merged, and the
\* shared maxima are never below the local maxima of a thread that has merged
C15_RaceFreeMaximum ==
  /\ loc.thr[1].at = "master" => \A t \in Threads : loc.thr[t].at # "merged"
  /\ \A t \in Threads :
       loc.thr[t].at = "merged" =>
         /\ ~RLt(out.StrainMag_Max, loc.thr[t].strainMax)
         /\ ~RLt(out.Omega_Max, loc.thr[t].omegaMax)
  /\ ((\A t \in Threads : loc.thr[t].at = "merged") /\ ~loc.reduced) =>
         /\ out.StrainMag_Max = MaxOver(nodes.StrainMag, Points)
         /\ out.Omega_Max = MaxOver(PreOmega, Points)
         /\ ~RLt(out.StrainMag_Max, Zero) /\ ~RLt(out.Omega_Max, Zero)

\* two threads have merged; the strain maximum comes from the first thread
\* and the vorticity maximum from the second
C15_Witness ==
  /\ pc = "pre" /\ cfg.nThreads = 2 /\ ~loc.reduced
  /\ \A t \in Threads : loc.thr[t].at = "merged"
  /\ loc.thr[1].strainMax # loc.thr[2].strainMax
  /\ RLt(loc.thr[1].omegaMax, loc.thr[2].omegaMax)
  /\ RLt(loc.thr[2].strainMax, loc.thr[1].strainMax)
  /\ out.StrainMag_Max = loc.thr[1].strainMax
  /\ out.Omega_Max = loc.thr[2].omegaMax

-----------------------------------------------------------------------------
(* Further claims on the wall boundary passes *)

\* the moving-wall terms of marker vertex v, computed on a zero scratch block
\* (on no block with explicit time integration)
MovingWallTerms(v) ==
  AddDynamicGridResidualContribution(
    geo.vertex[v].iPoint, geo.vertex[v].Normal_Neighbor,
    UnitNormalOf(geo.vertex[v].Normal, Norm(geo.vertex[v].Normal)),
    Norm(geo.vertex[v].Normal), geo.GridVel[geo.vertex[v].iPoint],
    IF cfg.implicit THEN ZeroMat ELSE <<>>, Zero, Zero)

\* the weak energy term Res_Visc of marker vertex v in a pass of the given
\* kind that imposed the wall temperature TwallAt there: Q A for a heat-flux
\* pass, k (Twall - There)/d A otherwise
WallResVisc(kind, v, TwallAt) ==
  IF kind = "heatflux"
  THEN RMul(IF cfg.PyCustom THEN geo.CustomBoundaryHeatFlux[v]
            ELSE RDiv(cfg.Wall_HeatFlux, cfg.Heat_Flux_Ref),
            Norm(geo.vertex[v].Normal))
  ELSE RMul(RMul(ConductivityAt(v),
                 RDiv(RSub(TwallAt[1], nodes.Temperature[geo.vertex[v].Normal_Neighbor]),
                      NeighbourDistanceAt(v))),
            Norm(geo.vertex[v].Normal))

\* Res_Conv - Res_Visc of marker vertex v in such a pass
WallEnergyContribution(kind, v, TwallAt) ==
  IF cfg.dynamic_grid
  THEN RSub(MovingWallTerms(v).Res_Conv,
            RAdd(WallResVisc(kind, v, TwallAt), MovingWallTerms(v).Res_Visc))
  ELSE RNeg(WallResVisc(kind, v, TwallAt))

\* the points that are not the point of a domain-owned marker vertex
NotOwnedWallPoints ==
  {p \in BCPoints : \A v \in OwnedBCVertices : geo.vertex[v].iPoint # p}

\* C17: a heat-flux, isothermal or CHT pass that completes leaves, at every
\* domain-owned marker vertex, the momentum rows of the residual and the
\* velocity truncation error at zero, the density row unchanged and the
\* energy row increased by Res_Conv - Res_Visc; the residual of every other
\* point is unchanged; a pass that repeats the previous one leaves the
\* momentum rows at zero and has applied the energy contribution twice
C17_ResidualRowsOfWallPass ==
  [][(pc = "wall" /\ pc' = "wall" /\ loc'.passes = loc.passes + 1) =>
       /\ \A v \in OwnedBCVertices :
            /\ \A r \in 1 .. nDim : LinSysRes'[geo.vertex[v].iPoint][r] = Zero
            /\ nodes'.Vel_ResTruncError[geo.vertex[v].iPoint] = ZeroDimVec
            /\ LinSysRes'[geo.vertex[v].iPoint][0] = LinSysRes[geo.vertex[v].iPoint][0]
            /\ LinSysRes'[geo.vertex[v].iPoint][nDim + 1] =
                 RAdd(LinSysRes[geo.vertex[v].iPoint][nDim + 1],
                      WallEnergyContribution(loc'.last, v, loc'.TwallAt[v]))
            /\ (loc.passes = 1 /\ loc.last = loc'.last) =>
                 /\ \A r \in 1 .. nDim : LinSysRes[geo.vertex[v].iPoint][r] = Zero
                 /\ LinSysRes'[geo.vertex[v].iPoint][nDim + 1] =
                      RAdd(WallInitialResidual[geo.vertex[v].iPoint][nDim + 1],
                           RMul(R(2), WallEnergyContribution(loc'.last, v, loc'.TwallAt[v])))
       /\ \A p \in NotOwnedWallPoints : LinSysRes'[p] = LinSysRes[p]]_vars

\* the same isothermal pass has run twice over a marker with an owned and a
\* halo vertex: the owned vertex has its energy row changed, the halo one its
\* residual as assembled
C17_Witness ==
  /\ pc = "wall" /\ loc.passes = 2
  /\ loc.last = "isothermal" /\ loc.prev = "isothermal"
  /\ \E v \in OwnedBCVertices, h \in BCVertices \ OwnedBCVertices :
       /\ LinSysRes[geo.vertex[v].iPoint][nDim + 1]
            # WallInitialResidual[geo.vertex[v].iPoint][nDim + 1]
       /\ LinSysRes[geo.vertex[v].iPoint][1] = Zero
       /\ LinSysRes[geo.vertex[h].iPoint] = WallInitialResidual[geo.vertex[h].iPoint]

\* the energy row a pass of the given kind sets for marker vertex v on a
\* scratch block that no other vertex has used
FreshEnergyRow(kind, v, TwallAt) ==
  IF kind = "heatflux" THEN MovingWallTerms(v).Jacobian_i[nDim + 1]
  ELSE [c \in Vars |->
          RAdd(IsothermalJacobianRow(geo.vertex[v].iPoint, TwallAt[1],
                                     Norm(geo.vertex[v].Normal),
                                     RDiv(ConductivityAt(v), NeighbourDistanceAt(v)))[c],
               IF cfg.dynamic_grid THEN MovingWallTerms(v).Jacobian_i[nDim + 1][c]
               ELSE Zero)]

\* C20: in every wall pass with implicit time integration the block added to
\* the diagonal block of a vertex is zero outside the energy row, and its
\* energy row is the one the pass computes for that vertex on an unused
\* scratch block
C20_NoCarryOverInWallBlock ==
  [][(pc = "wall" /\ loc'.passes = loc.passes + 1 /\ cfg.implicit) =>
       \A v \in OwnedBCVertices :
         loc'.added[v] # <<>> =>
           /\ \A r \in Vars \ {nDim + 1} : loc'.added[v][r] = [c \in Vars |-> Zero]
           /\ loc'.added[v][nDim + 1] = FreshEnergyRow(loc'.last, v, loc'.TwallAt[v])]_vars

\* an implicit heat-flux pass on a moving mesh has added, at two owned
\* vertices in turn, blocks with different non-zero energy rows
C20_Witness ==
  /\ pc = "wall" /\ cfg.implicit /\ cfg.dynamic_grid /\ loc.last = "heatflux"
  /\ OwnedBCVertices = BCVertices
  /\ loc.added[1] # <<>> /\ loc.added[2] # <<>>
  /\ \A c \in Vars : loc.added[1][nDim + 1][c] # Zero
  /\ loc.added[1][nDim + 1] # loc.added[2][nDim + 1]

-----------------------------------------------------------------------------
(* The wall passes and the wall-function solve of one run *)

InitHalo == InitWall \/ InitWF

NextHalo ==
  \/ NextWall
  \/ NextWF

SpecHalo == InitHalo /\ [][NextHalo]_vars

\* C14: for every marker vertex whose point is not domain-owned, a heat-flux,
\* isothermal or CHT pass leaves the old velocity, the residual rows, the
\* velocity truncation error and the Jacobian rows of that point unchanged,
\* and a call of SetTauWall_WF leaves its cached wall shear stress unchanged
\* and does not solve the vertex
C14_HaloVerticesSkipped ==
  [][IF pc = "wall"
     THEN loc'.passes = loc.passes + 1 =>
            \A v \in BCVertices \ OwnedBCVertices :
              /\ nodes'.Velocity_Old[geo.vertex[v].iPoint]
                   = nodes.Velocity_Old[geo.vertex[v].iPoint]
              /\ nodes'.Vel_ResTruncError[geo.vertex[v].iPoint]
                   = nodes.Vel_ResTruncError[geo.vertex[v].iPoint]
              /\ LinSysRes'[geo.vertex[v].iPoint] = LinSysRes[geo.vertex[v].iPoint]
              /\ \A q \in BCPoints :
                   Jacobian'[<<geo.vertex[v].iPoint, q>>]
                     = Jacobian[<<geo.vertex[v].iPoint, q>>]
     ELSE (pc = "wf" /\ loc'.calls = loc.calls + 1) =>
            \A mv \in WFVertices :
              ~geo.Domain[WFPointOf(mv)] =>
                /\ nodes'.TauWall[WFPointOf(mv)] = nodes.TauWall[WFPointOf(mv)]
                /\ loc'.did[mv] = <<>>]_vars

\* an implicit wall pass has run over a marker with a halo vertex, whose point
\* still holds the old velocity and truncation error it had, and an owned
\* vertex, whose old velocity the pass has set
C14_Witness ==
  /\ pc = "wall" /\ loc.passes > 0 /\ cfg.implicit
  /\ \E h \in BCVertices \ OwnedBCVertices, v \in OwnedBCVertices :
       /\ nodes.Velocity_Old[geo.vertex[h].iPoint] = Vec2(R(1), R(-1))
       /\ nodes.Vel_ResTruncError[geo.vertex[h].iPoint] = Vec2(R(2), R(1))
       /\ nodes.Velocity_Old[geo.vertex[v].iPoint] # Vec2(R(1), R(-1))
       /\ nodes.Vel_ResTruncError[geo.vertex[v].iPoint] = ZeroDimVec

====
